---- MODULE Spec2Model ----
(***************************************************************************)
(* Model of fetch-full-solidity-contract: the proxy detector               *)
(* (modules/proxyDetector.js), the comment stripper, the source parser and *)
(* the save pass (modules/sourceParser.js), the chain table                *)
(* (modules/chainConfig.js) and the orchestrator fetchContract (index.js). *)
(*                                                                         *)
(* Text is a sequence of one-character strings.  Values that JavaScript    *)
(* keeps apart from text (null, a missing field, a raised exception) are   *)
(* one-element sequences holding a long token, so they never equal a text. *)
(***************************************************************************)
EXTENDS Integers, Sequences, FiniteSets, TLC

VARIABLES
  pc,          \* detectProxy: the chain read being awaited, "idle" or "done"
  sourceData,  \* detectProxy: the registry record passed in (or NoSourceData)
  code,        \* detectProxy: bytecode fetched by the existence check
  answer,      \* detectProxy: the most recent chain read and what it returned
  attempted,   \* detectProxy: the methods and reads attempted so far, in order
  candidate,   \* detectProxy: beaconAddress / slotValue / potentialAddr in use
  ctorIdx,     \* detectProxyFromSource: index into addressMatches
  sawAddress,  \* history: some read named a non-zero implementation address
  result,      \* detectProxy: the object returned
  source,      \* stripSolidityComments: the input text
  i,           \* stripSolidityComments: the scan index (0-based, as in the code)
  out,         \* stripSolidityComments: result so far, then the returned text
  spc,         \* stripSolidityComments: "idle", "scan" or "done"
  lastStep,    \* stripSolidityComments: which branch the last iteration took
  payload,     \* parseSourceCode: the argument
  parsed,      \* parseSourceCode: the object returned
  ppc,         \* parseSourceCode: "idle", "call" or "done"
  svpc,        \* processAndSaveSource: "idle", "process", "save", "done",
               \* or "thrown" when it ended with an exception
  saveCall,    \* processAndSaveSource: the arguments of the call
  parsedSource,     \* processAndSaveSource: the parsed tree handed on
  baseDir,     \* saveSourceFiles: the contract's output directory
  fileIdx,     \* saveSourceFiles: position of the write loop (1-based)
  delIdx,      \* saveSourceFiles: position of the delete loop (1-based)
  savedFiles,  \* saveSourceFiles: full paths written and not deleted
  keptFiles,   \* saveSourceFiles: normalized paths kept for audit
  excludedFiles,    \* saveSourceFiles: normalized paths to delete
  blacklistedFiles, \* saveSourceFiles: normalized paths skipped
  deletedFiles,     \* saveSourceFiles: excluded paths that were unlinked
  excludedReasons,  \* saveSourceFiles: reason per excluded path
  disk,        \* the file system: source files by full path
  manifests,   \* the file system: audit-manifest.json files by directory
  writes,      \* history: the full paths handed to fs.writeFileSync
  saveResult,  \* processAndSaveSource: the object returned
  auditMetadata,    \* generateAuditMetadata: the object returned
  ioFailures,  \* history: the file operations the file system refused
  fpc,         \* fetchContract: the step it is at, "idle", "done" or "failed"
  chainName,   \* fetchContract: the chain identifier passed in
  mainSourceData,   \* fetchContract: the registry record of the target
  proxyInfo,   \* fetchContract: what detectProxy returned
  addressesToFetch, \* fetchContract: the items to process
  itemIdx,     \* fetchContract: position of the loop over the items
  sourceResults,    \* fetchContract: result.sourceResults
  requests,    \* history: the requests sent to the registry and the replies
  chainReads,  \* history: the reads sent to the chain's RPC endpoint
  thrown       \* fetchContract: the error it rejects with, or Null

proxyVars == <<pc, sourceData, code, answer, attempted, candidate, ctorIdx,
               sawAddress, result>>
stripVars == <<source, i, out, spc, lastStep>>
parseVars == <<payload, parsed, ppc>>
saveVars == <<svpc, saveCall, parsedSource, baseDir, fileIdx, delIdx,
              savedFiles, keptFiles, excludedFiles, blacklistedFiles,
              deletedFiles, excludedReasons, disk, manifests, writes,
              saveResult, auditMetadata, ioFailures>>
fetchVars == <<fpc, chainName, mainSourceData, proxyInfo, addressesToFetch,
               itemIdx, sourceResults, requests, chainReads, thrown>>
vars == <<proxyVars, stripVars, parseVars, saveVars, fetchVars>>

-----------------------------------------------------------------------------
(* JavaScript values that are not text *)

Null == <<"NULL">>
Absent == <<"ABSENT">>
Fail == <<"FAIL">>
Throw == <<"THROW">>

\* a files object: its entries (key and content) in insertion order
NoFiles == <<>>

\* parsed before parseSourceCode has returned
NotParsed == [type |-> "none", files |-> NoFiles]

(* Text helpers *)

Rep(c, n) == [k \in 1..n |-> c]

Drop(s, n) == IF n >= Len(s) THEN <<>> ELSE SubSeq(s, n + 1, Len(s))

StartsWith(s, p) == Len(s) >= Len(p) /\ SubSeq(s, 1, Len(p)) = p

EndsWith(s, p) == Len(s) >= Len(p) /\ SubSeq(s, Len(s) - Len(p) + 1, Len(s)) = p

Digits == {"0", "1", "2", "3", "4", "5", "6", "7", "8", "9"}
LowerHexLetters == {"a", "b", "c", "d", "e", "f"}
UpperHexLetters == {"A", "B", "C", "D", "E", "F"}
HexLower == Digits \cup LowerHexLetters
HexAny == HexLower \cup UpperHexLetters

ToLower(c) ==
  CASE c = "A" -> "a" [] c = "B" -> "b" [] c = "C" -> "c"
    [] c = "D" -> "d" [] c = "E" -> "e" [] c = "F" -> "f"
    [] OTHER -> c

ToUpper(c) ==
  CASE c = "a" -> "A" [] c = "b" -> "B" [] c = "c" -> "C"
    [] c = "d" -> "D" [] c = "e" -> "E" [] c = "f" -> "F"
    [] OTHER -> c

HexVal(c) ==
  CASE c = "0" -> 0 [] c = "1" -> 1 [] c = "2" -> 2 [] c = "3" -> 3
    [] c = "4" -> 4 [] c = "5" -> 5 [] c = "6" -> 6 [] c = "7" -> 7
    [] c = "8" -> 8 [] c = "9" -> 9 [] c = "a" -> 10 [] c = "b" -> 11
    [] c = "c" -> 12 [] c = "d" -> 13 [] c = "e" -> 14 [] c = "f" -> 15
    [] OTHER -> 0

LowerCase(s) == [k \in 1..Len(s) |-> ToLower(s[k])]

AllIn(s, S) == \A k \in 1..Len(s) : s[k] \in S

-----------------------------------------------------------------------------
(* Addresses: ethers.getAddress as the detector uses it *)

AddrHexLen == 40
WordHexLen == 64

Prefix0x == <<"0", "x">>

ZeroAddress == Prefix0x \o Rep("0", AddrHexLen)

\* EIP-55 upper-cases the hex letters picked by a digest of the lower-cased
\* digits.  The digest (keccak256 in ethers) is replaced by a fixed function
\* of the digits: position k is picked when digit k plus its right neighbour
\* plus k is odd.
ChecksumPicks(lower, k) ==
  (HexVal(lower[k]) + HexVal(lower[(k % Len(lower)) + 1]) + k) % 2 = 1

getChecksumAddress(address) ==
  LET lower == LowerCase(Drop(address, 2))
  IN  Prefix0x \o [k \in 1..Len(lower) |->
        IF ChecksumPicks(lower, k) THEN ToUpper(lower[k]) ELSE lower[k]]

\* /([A-F].*[a-f])|([a-f].*[A-F])/
MixedCase(s) ==
  (\E k \in 1..Len(s) : s[k] \in UpperHexLetters) /\
  (\E k \in 1..Len(s) : s[k] \in LowerHexLetters)

\* ethers.getAddress (without the ICAP form): the checksummed address, or
\* Throw for a text that is no address or carries a wrong checksum.
getAddressAcceptAny(address) ==
  IF Len(address) >= 2 /\ StartsWith(address, Prefix0x)
  THEN getChecksumAddress(address)
  ELSE getChecksumAddress(Prefix0x \o address)

getAddress(address) ==
  LET with0x == IF StartsWith(address, Prefix0x) THEN address
                ELSE Prefix0x \o address
      digits == Drop(with0x, 2)
  IN  IF Len(digits) = AddrHexLen /\ AllIn(digits, HexAny)
      THEN IF MixedCase(digits) /\ getChecksumAddress(with0x) # with0x
           THEN Throw
           ELSE getChecksumAddress(with0x)
      ELSE Throw

-----------------------------------------------------------------------------
(* readAddressFromSlot and parseEIP1167Bytecode *)

\* String.prototype.replace('0x', ''): the first occurrence is removed
RECURSIVE RemoveFirst0x(_)
RemoveFirst0x(s) ==
  IF Len(s) < 2 THEN s
  ELSE IF SubSeq(s, 1, 2) = Prefix0x THEN Drop(s, 2)
  ELSE <<s[1]>> \o RemoveFirst0x(Tail(s))

padStart(s, n, c) == IF Len(s) >= n THEN s ELSE Rep(c, n - Len(s)) \o s

SliceLast(s, n) == IF Len(s) <= n THEN s ELSE SubSeq(s, Len(s) - n + 1, Len(s))

Truthy(v) == v # Null /\ v # Absent /\ v # <<>>

readAddressFromSlotNoZeroCheck(value) ==
  LET cleanValue == padStart(RemoveFirst0x(value), WordHexLen, "0")
      addressHex == Prefix0x \o SliceLast(cleanValue, AddrHexLen)
      a == getAddress(addressHex)
  IN  IF a = Throw THEN Null ELSE a

readAddressFromSlot(value) ==
  LET cleanValue == padStart(RemoveFirst0x(value), WordHexLen, "0")
      addressHex == Prefix0x \o SliceLast(cleanValue, AddrHexLen)
      a == getAddress(addressHex)
  IN  IF addressHex = ZeroAddress THEN Null
      ELSE IF a = Throw THEN Null ELSE a

EIP1167_PREFIX ==
  <<"3","6","3","d","3","d","3","7","3","d","3","d","3","d","3","6","3","d","7","3">>
EIP1167_SUFFIX ==
  <<"5","a","f","4","3","d","8","2","8","0","3","e","9","0","3","d","9","1",
    "6","0","2","b","5","7","f","d","5","b","f","3">>
ALT_PREFIX ==
  <<"3","6","6","0","0","0","8","0","3","7","6","0","2","0","3","6","3","6",
    "6","0","2","0","3","7","3","6">>

\* /^0x363d3d373d3d3d363d73([a-fA-F0-9]{40})5af43d82803e903d91602b57fd5bf3$/
\* the captured group, or Null
MatchStandard1167(bytecode) ==
  LET head == Prefix0x \o EIP1167_PREFIX
      n == Len(head) + AddrHexLen + Len(EIP1167_SUFFIX)
      group == SubSeq(bytecode, Len(head) + 1, Len(head) + AddrHexLen)
  IN  IF Len(bytecode) = n /\ StartsWith(bytecode, head)
         /\ EndsWith(bytecode, EIP1167_SUFFIX) /\ AllIn(group, HexAny)
      THEN group ELSE Null

\* /^0x36600080376020363660203736[a-f0-9]*73([a-fA-F0-9]{40})[a-f0-9]*$/i
\* the first star is greedy: the group follows the last "73" that still has
\* forty hex digits after it.
MatchAlternative1167(bytecode) ==
  LET head == Prefix0x \o ALT_PREFIX
      rest == Drop(bytecode, Len(head))
      ok(j) == /\ LowerCase(SubSeq(rest, j, j + 1)) = <<"7", "3">>
               /\ Len(rest) - (j + 1) >= AddrHexLen
      js == {j \in 1..(Len(rest) - 1) : ok(j)}
      last == CHOOSE j \in js : \A j2 \in js : j2 <= j
  IN  IF Len(bytecode) >= Len(head)
         /\ LowerCase(SubSeq(bytecode, 1, Len(head))) = head
         /\ AllIn(rest, HexAny) /\ js # {}
      THEN SubSeq(rest, last + 2, last + 1 + AddrHexLen) ELSE Null

parseEIP1167Bytecode(bytecode) ==
  LET m1 == MatchStandard1167(bytecode)
      m2 == MatchAlternative1167(bytecode)
      a1 == IF m1 = Null THEN Throw ELSE getAddress(Prefix0x \o m1)
      a2 == IF m2 = Null THEN Throw ELSE getAddress(Prefix0x \o m2)
  IN  IF a1 # Throw THEN a1 ELSE IF a2 # Throw THEN a2 ELSE Null

-----------------------------------------------------------------------------
(* detectProxy: inputs and the chain's possible answers *)

AddrA == Rep("a", AddrHexLen)
AddrB == [k \in 1..AddrHexLen |-> IF k % 2 = 1 THEN "1" ELSE "b"]

\* the contractAddress argument
Target == Prefix0x \o Rep("c", AddrHexLen)

ZeroWord == Prefix0x \o Rep("0", WordHexLen)
ShortZero == <<"0", "x", "0">>
PadLen == WordHexLen - AddrHexLen
CleanWord(digits) == Prefix0x \o Rep("0", PadLen) \o digits
DirtyWord(digits) == Prefix0x \o Rep("f", PadLen) \o digits

EmptyCode == Prefix0x
EmptyCode0 == ShortZero
PlainCode == <<"0", "x", "6", "0", "8", "0">>
Standard1167(digits) == Prefix0x \o EIP1167_PREFIX \o digits \o EIP1167_SUFFIX
Alternative1167(digits) ==
  Prefix0x \o ALT_PREFIX \o <<"7", "3">> \o digits \o <<"5", "a", "f", "4">>

CodeAnswers ==
  {Fail, EmptyCode, EmptyCode0, PlainCode, Standard1167(AddrA),
   Standard1167(Rep("0", AddrHexLen)), Alternative1167(AddrB)}

StorageAnswers ==
  {Fail, ZeroWord, ShortZero, CleanWord(AddrA), DirtyWord(AddrB)}

CallAnswers ==
  {Fail, ZeroAddress, getChecksumAddress(Prefix0x \o AddrA),
   getChecksumAddress(Prefix0x \o AddrB)}

CandidateCodeAnswers == {Fail, EmptyCode, PlainCode}

\* values of sourceData.implementation: empty, lower-case, checksummed,
\* mixed case with a wrong checksum, not an address, the zero address
BadChecksum == Prefix0x \o <<"a", "A", "a", "a">> \o Rep("a", AddrHexLen - 4)
NotAnAddress == <<"n", "/", "a">>
DeclaredImplementations ==
  {<<>>, Prefix0x \o AddrA, getChecksumAddress(Prefix0x \o AddrB),
   BadChecksum, NotAnAddress, ZeroAddress}

\* sourceData.sourceCode, reduced to what the three patterns of
\* detectProxyFromSource find in it: inheritance from a name ending in Proxy,
\* an _implementation() override, a STORAGE_SLOT constant (TRUE when the
\* constant and its 32-byte literal are present).
SourceCodes ==
  [inheritsProxy : BOOLEAN, overridesImplementation : BOOLEAN,
   storageSlot : BOOLEAN]

\* sourceData.constructorArguments: empty, one ABI word holding AddrA, or two
\* packed addresses
ConstructorArguments ==
  {<<>>, Rep("0", PadLen) \o AddrA, AddrA \o AddrB}

NoSourceData ==
  [present |-> FALSE, isVerified |-> FALSE, isProxy |-> FALSE,
   implementation |-> <<>>,
   sourceCode |-> [inheritsProxy |-> FALSE, overridesImplementation |-> FALSE,
                   storageSlot |-> FALSE],
   constructorArguments |-> <<>>]

SourceDataInputs ==
  {NoSourceData} \cup
  [present : {TRUE}, isVerified : BOOLEAN, isProxy : BOOLEAN,
   implementation : DeclaredImplementations, sourceCode : SourceCodes,
   constructorArguments : ConstructorArguments]

NoResult ==
  [isProxy |-> FALSE, proxyAddress |-> Null, implementationAddress |-> Null,
   detectionMethod |-> Absent, error |-> Absent]

ProxyResult(impl, method) ==
  [isProxy |-> TRUE, proxyAddress |-> Target, implementationAddress |-> impl,
   detectionMethod |-> method, error |-> Absent]

NotProxyResult(err) ==
  [isProxy |-> FALSE, proxyAddress |-> Target, implementationAddress |-> Null,
   detectionMethod |-> Absent, error |-> err]

NoContractError == <<"No contract at address">>
ErrorMessage == <<"error.message">>
EtherscanApi == <<"etherscan-api">>
SourceCodeAnalysis == <<"source-code-analysis">>

-----------------------------------------------------------------------------
(* detectProxy: the probes *)

tryStorageSlot(value) ==
  IF value = Fail THEN Null ELSE readAddressFromSlot(value)

tryContractCall(address) ==
  IF address = Fail THEN Null
  ELSE IF Truthy(address) /\ address # ZeroAddress
       THEN LET a == getAddress(address) IN IF a = Throw THEN Null ELSE a
       ELSE Null

IsEmptyCodeOnly0x(c) == c = EmptyCode

IsEmptyCode(c) == c = EmptyCode \/ c = EmptyCode0

HasCode(c) == Truthy(c) /\ c # EmptyCode /\ c # EmptyCode0

DetectionMethodsSwapped ==
  <<"openzeppelin", "eip1967", "eip1822", "eip1167", "eip897", "gnosis", "beacon">>

DetectionMethods ==
  <<"eip1967", "openzeppelin", "eip1822", "eip1167", "eip897", "gnosis", "beacon">>

MethodIndex(m) == CHOOSE k \in 1..Len(DetectionMethods) : DetectionMethods[k] = m

StorageReads == {"eip1967", "openzeppelin", "eip1822", "beacon", "src.customSlot"}
CallReads ==
  {"eip897", "gnosis", "beacon.implementation", "beacon.childImplementation",
   "src.implementation", "src.slotContract.implementation",
   "src.ctor.implementation"}
CandidateCodeReads == {"src.slotCode", "src.ctorCode"}

\* what a handler leaves behind: the next read awaited (or done), the result,
\* the log, the address in use and the constructor-argument index
Finish(res, att) ==
  [pc |-> "done", result |-> res, att |-> att, cand |-> Null, idx |-> 0]

Await(read, att, cand, idx) ==
  [pc |-> read, result |-> NoResult, att |-> Append(att, read), cand |-> cand,
   idx |-> idx]

\* addressMatches = constructorArgs.match(/[a-fA-F0-9]{40}/g) on a hex text:
\* the consecutive 40-digit pieces from the left
AddressMatchCount(args) == Len(args) \div AddrHexLen
AddressMatch(args, j) == SubSeq(args, (j - 1) * AddrHexLen + 1, j * AddrHexLen)

RECURSIVE ConstructorScan(_, _, _)
ConstructorScan(sd, j, att) ==
  IF ~Truthy(sd.constructorArguments)
     \/ j > AddressMatchCount(sd.constructorArguments)
  THEN Finish(NotProxyResult(Absent), att)
  ELSE LET potentialAddr ==
             getAddress(Prefix0x \o AddressMatch(sd.constructorArguments, j))
       IN  IF potentialAddr = Throw
           THEN ConstructorScan(sd, j + 1, att)
           ELSE Await("src.ctorCode", att, potentialAddr, j)

\* every source taken to show a signal
SourceSignalsAlways(sd) == TRUE

SourceSignals(sd) ==
  \/ sd.sourceCode.inheritsProxy
  \/ sd.sourceCode.overridesImplementation
  \/ sd.sourceCode.storageSlot

\* detectProxy lines 324-342
AfterLoop(sd, att) ==
  IF sd.present /\ sd.isVerified
  THEN IF ~SourceSignals(sd)
       THEN Finish(NotProxyResult(Absent), Append(att, "source"))
       ELSE Await("src.implementation", Append(att, "source"), Null, 0)
  ELSE Finish(NotProxyResult(Absent), att)

\* the loop of detectProxy lines 313-322, entered at method k
RECURSIVE RunMethod(_, _, _, _)
RunMethod(k, c, sd, att) ==
  IF k > Len(DetectionMethods) THEN AfterLoop(sd, att)
  ELSE LET m == DetectionMethods[k] IN
       IF m = "eip1167"
       THEN LET impl == parseEIP1167Bytecode(c) IN
            IF Truthy(impl) THEN Finish(ProxyResult(impl, Absent), Append(att, m))
            ELSE RunMethod(k + 1, c, sd, Append(att, m))
       ELSE Await(m, att, Null, 0)

\* the loop body after method m returned implementation
LoopResult(m, implementation, c, sd, att) ==
  IF Truthy(implementation) THEN Finish(ProxyResult(implementation, Absent), att)
  ELSE RunMethod(MethodIndex(m) + 1, c, sd, att)

\* detectProxy lines 249-275 once getCode has answered
AfterGetCode(ans, sd, att) ==
  IF ans = Fail THEN Finish(NotProxyResult(ErrorMessage), att)
  ELSE IF IsEmptyCode(ans) THEN Finish(NotProxyResult(NoContractError), att)
  ELSE IF sd.present /\ sd.isProxy /\ Truthy(sd.implementation)
       THEN LET etherscanImpl == getAddress(sd.implementation) IN
            IF etherscanImpl # Throw
            THEN Finish(ProxyResult(etherscanImpl, EtherscanApi),
                        Append(att, "etherscan-api"))
            ELSE RunMethod(1, ans, sd, Append(att, "etherscan-api"))
       ELSE RunMethod(1, ans, sd, att)

SourceFound(impl, att) == Finish(ProxyResult(impl, SourceCodeAnalysis), att)

\* the continuation of the read named read once the chain answered ans
Respond(read, ans, c, sd, att, cand, idx) ==
  CASE read \in {"eip1967", "openzeppelin", "eip1822"} ->
         LoopResult(read, tryStorageSlot(ans), c, sd, att)
    [] read \in {"eip897", "gnosis"} ->
         LoopResult(read, tryContractCall(ans), c, sd, att)
    [] read = "beacon" ->
         LET beaconAddress == tryStorageSlot(ans) IN
         IF Truthy(beaconAddress)
         THEN Await("beacon.implementation", att, beaconAddress, 0)
         ELSE LoopResult("beacon", Null, c, sd, att)
    [] read = "beacon.implementation" ->
         LET impl == tryContractCall(ans) IN
         IF ~Truthy(impl) THEN Await("beacon.childImplementation", att, cand, 0)
         ELSE LoopResult("beacon", impl, c, sd, att)
    [] read = "beacon.childImplementation" ->
         LoopResult("beacon", tryContractCall(ans), c, sd, att)
    [] read = "src.implementation" ->
         LET implementation == tryContractCall(ans) IN
         IF Truthy(implementation) THEN SourceFound(implementation, att)
         ELSE IF sd.sourceCode.storageSlot
              THEN Await("src.customSlot", att, Null, 0)
              ELSE ConstructorScan(sd, 1, att)
    [] read = "src.customSlot" ->
         LET slotValue == tryStorageSlot(ans) IN
         IF Truthy(slotValue) THEN Await("src.slotCode", att, slotValue, 0)
         ELSE ConstructorScan(sd, 1, att)
    [] read = "src.slotCode" ->
         IF ans = Fail THEN Finish(NotProxyResult(Absent), att)
         ELSE IF HasCode(ans) THEN SourceFound(cand, att)
         ELSE Await("src.slotContract.implementation", att, cand, 0)
    [] read = "src.slotContract.implementation" ->
         LET implementation == tryContractCall(ans) IN
         IF Truthy(implementation) THEN SourceFound(implementation, att)
         ELSE ConstructorScan(sd, 1, att)
    [] read = "src.ctorCode" ->
         IF ans = Fail THEN ConstructorScan(sd, idx + 1, att)
         ELSE IF HasCode(ans) THEN Await("src.ctor.implementation", att, cand, idx)
         ELSE ConstructorScan(sd, idx + 1, att)
    [] read = "src.ctor.implementation" ->
         LET impl == tryContractCall(ans) IN
         IF Truthy(impl) THEN SourceFound(impl, att)
         ELSE ConstructorScan(sd, idx + 1, att)

-----------------------------------------------------------------------------
(* detectProxy: the state machine, one action per awaited chain read *)

NoAnswerYet == [read |-> "none", value |-> Null]

\* history only: the raw answer of a read that names an implementation (a
\* storage slot other than the beacon and custom slots, or a call) carries a
\* non-zero address
CarriesAddress(read, ans) ==
  /\ ans # Fail
  /\ \/ read \in StorageReads \ {"beacon", "src.customSlot"}
        /\ \E k \in 3..Len(ans) : k > Len(ans) - AddrHexLen /\ ans[k] # "0"
     \/ read \in CallReads /\ ans # ZeroAddress

StripIdle ==
  /\ source = <<>> /\ i = 0 /\ out = <<>> /\ spc = "idle" /\ lastStep = "none"

ParseIdle ==
  /\ payload = Null /\ parsed = NotParsed /\ ppc = "idle"

NoSaveCall ==
  [sourceData |-> Null, contractType |-> "", baseContractAddress |-> Null]

NoSaveResult == [success |-> Null]

NoMetadata == [mainContractPath |-> Absent]

\* the locals of saveSourceFiles as it starts
SaveLocalsEmpty ==
  /\ fileIdx = 1 /\ delIdx = 1
  /\ savedFiles = <<>> /\ keptFiles = <<>> /\ excludedFiles = <<>>
  /\ blacklistedFiles = <<>> /\ deletedFiles = <<>> /\ excludedReasons = <<>>

SaveIdle ==
  /\ svpc = "idle" /\ saveCall = NoSaveCall
  /\ parsedSource = NotParsed /\ baseDir = <<>>
  /\ SaveLocalsEmpty
  /\ disk = {} /\ manifests = {} /\ writes = <<>>
  /\ saveResult = NoSaveResult /\ auditMetadata = NoMetadata
  /\ ioFailures = <<>>

NoSourceFetched ==
  [present |-> FALSE, isVerified |-> FALSE, sourceCode |-> <<>>,
   contractName |-> <<>>, contractFileName |-> Absent, chainName |-> <<>>,
   contractAddress |-> <<>>]

FetchIdle ==
  /\ fpc = "idle" /\ chainName = <<>> /\ mainSourceData = NoSourceFetched
  /\ proxyInfo = NoResult /\ addressesToFetch = <<>> /\ itemIdx = 1
  /\ sourceResults = <<>> /\ requests = <<>> /\ chainReads = <<>>
  /\ thrown = Null

Settle(n, ans) ==
  /\ pc' = n.pc
  /\ result' = n.result
  /\ attempted' = n.att
  /\ candidate' = n.cand
  /\ ctorIdx' = n.idx
  /\ answer' = [read |-> pc, value |-> ans]
  /\ sawAddress' = (sawAddress \/ CarriesAddress(pc, ans))
  /\ UNCHANGED <<sourceData, stripVars, parseVars, saveVars, fetchVars>>

ExistenceCheck ==
  /\ pc = "getCode"
  /\ \E ans \in CodeAnswers :
       /\ Settle(AfterGetCode(ans, sourceData, attempted), ans)
       /\ code' = IF ans = Fail THEN code ELSE ans

StorageProbe ==
  /\ pc \in StorageReads
  /\ \E ans \in StorageAnswers :
       Settle(Respond(pc, ans, code, sourceData, attempted, candidate, ctorIdx), ans)
  /\ UNCHANGED code

CallProbe ==
  /\ pc \in CallReads
  /\ \E ans \in CallAnswers :
       Settle(Respond(pc, ans, code, sourceData, attempted, candidate, ctorIdx), ans)
  /\ UNCHANGED code

CandidateCodeLookup ==
  /\ pc \in CandidateCodeReads
  /\ \E ans \in CandidateCodeAnswers :
       Settle(Respond(pc, ans, code, sourceData, attempted, candidate, ctorIdx), ans)
  /\ UNCHANGED code

InitProxy ==
  /\ pc = "getCode"
  /\ sourceData \in SourceDataInputs
  /\ code = Null /\ answer = NoAnswerYet
  /\ attempted = <<"getCode">>
  /\ candidate = Null /\ ctorIdx = 0
  /\ sawAddress = FALSE
  /\ result = NoResult
  /\ StripIdle
  /\ ParseIdle
  /\ SaveIdle
  /\ FetchIdle

NextProxy == ExistenceCheck \/ StorageProbe \/ CallProbe \/ CandidateCodeLookup

SpecProxy == InitProxy /\ [][NextProxy]_vars

-----------------------------------------------------------------------------
(* detectProxy: properties *)

Range(s) == {s[k] : k \in 1..Len(s)}

LastOf(s) == s[Len(s)]

\* the 20 right-aligned bytes of a storage word, as lower-case digits
LowDigits(word) ==
  LET d == Drop(word, 2)
      padded == Rep("0", WordHexLen - Len(d)) \o d
  IN  LowerCase(SubSeq(padded, PadLen + 1, WordHexLen))

\* a text that is an address: forty hex digits after an optional 0x, in one
\* case or carrying the right checksum
ValidAddressText(t) ==
  LET d == IF StartsWith(t, Prefix0x) THEN Drop(t, 2) ELSE t
  IN  /\ Len(d) = AddrHexLen
      /\ AllIn(d, HexAny)
      /\ \/ AllIn(d, HexLower)
         \/ AllIn(d, Digits \cup UpperHexLetters)
         \/ Prefix0x \o d = getChecksumAddress(Prefix0x \o d)

DeclaredImplementation ==
  sourceData.present /\ sourceData.isProxy /\ ValidAddressText(sourceData.implementation)

\* the place of a log entry in the documented order of methods
Rank(entry) ==
  CASE entry = "getCode" -> 0
    [] entry = "etherscan-api" -> 1
    [] entry = "eip1967" -> 2
    [] entry = "openzeppelin" -> 3
    [] entry = "eip1822" -> 4
    [] entry = "eip1167" -> 5
    [] entry = "eip897" -> 6
    [] entry = "gnosis" -> 7
    [] entry = "beacon" -> 8
    [] entry = "beacon.implementation" -> 9
    [] entry = "beacon.childImplementation" -> 10
    [] entry = "source" -> 11
    [] OTHER -> 12

MethodsInOrder ==
  /\ \A a, b \in 1..Len(attempted) :
       a < b => /\ Rank(attempted[a]) <= Rank(attempted[b])
                /\ Rank(attempted[a]) <= Rank("source")
                     => Rank(attempted[a]) < Rank(attempted[b])
  /\ \A a \in 1..Len(attempted) :
       \A r \in Rank("eip1967")..Rank("beacon") :
         r < Rank(attempted[a]) => \E b \in 1..a : Rank(attempted[b]) = r
  /\ "beacon.childImplementation" \in Range(attempted)
       => "beacon.implementation" \in Range(attempted)

EmbeddedDigits == {AddrA, AddrB, Rep("0", AddrHexLen)}

FirstYieldWins ==
  /\ (answer.read # "none" /\ CarriesAddress(answer.read, answer.value))
       => /\ pc = "done" /\ result.isProxy
          /\ LastOf(attempted) = answer.read
          /\ result.implementationAddress =
               IF answer.read \in StorageReads
               THEN getChecksumAddress(Prefix0x \o LowDigits(answer.value))
               ELSE getChecksumAddress(answer.value)
  /\ \A d \in EmbeddedDigits :
       ("eip1167" \in Range(attempted)
          /\ code \in {Standard1167(d), Alternative1167(d)})
       => /\ pc = "done" /\ result.isProxy
          /\ LastOf(attempted) = "eip1167"
          /\ result.implementationAddress = getChecksumAddress(Prefix0x \o d)
  /\ ("etherscan-api" \in Range(attempted)
        /\ ValidAddressText(sourceData.implementation))
       => /\ pc = "done" /\ result.isProxy
          /\ LastOf(attempted) = "etherscan-api"
  /\ (pc = "done" /\ result.isProxy)
       => \/ CarriesAddress(answer.read, answer.value)
          \/ LastOf(attempted) \in {"eip1167", "etherscan-api"}
          \/ answer.read = "src.slotCode"

\* C1: the methods are attempted one after another in the documented order
\* (registry, EIP-1967, OpenZeppelin, EIP-1822, EIP-1167 bytecode,
\* implementation(), masterCopy(), beacon, source heuristic), none is skipped,
\* and the first one that yields an address ends the run with that address.
C1_OrderedShortCircuit == MethodsInOrder /\ FirstYieldWins

\* C1 witness: the EIP-1967 slot names one address while the bytecode is a
\* minimal proxy for another, and the slot's address is returned
C1_Witness ==
  /\ pc = "done"
  /\ code = Standard1167(AddrA)
  /\ answer.read = "eip1967"
  /\ result.implementationAddress = getChecksumAddress(Prefix0x \o AddrB)
  /\ "eip1167" \notin Range(attempted)

\* C2 as stated: a declared proxy with a valid declared implementation is
\* always answered isProxy=true with that address and method etherscan-api
C2_DeclaredAlwaysTrusted ==
  (pc = "done" /\ DeclaredImplementation)
    => /\ result.isProxy
       /\ result.implementationAddress = getChecksumAddress(
            IF StartsWith(sourceData.implementation, Prefix0x)
            THEN sourceData.implementation
            ELSE Prefix0x \o sourceData.implementation)
       /\ result.detectionMethod = EtherscanApi

\* C2 amended: once the existence check has found deployed code, a declared
\* proxy with a valid declared implementation is answered with that address
\* (checksummed) and method etherscan-api, and no storage read or call is
\* made; a declared value that is no valid address is never returned under
\* etherscan-api, and the EIP-1967 slot is read next.
C2_DeclaredTrustedWhenCodeExists ==
  /\ (pc # "getCode" /\ HasCode(code) /\ DeclaredImplementation)
       => /\ pc = "done"
          /\ result = ProxyResult(getChecksumAddress(
                 IF StartsWith(sourceData.implementation, Prefix0x)
                 THEN sourceData.implementation
                 ELSE Prefix0x \o sourceData.implementation), EtherscanApi)
          /\ attempted = <<"getCode", "etherscan-api">>
  /\ (pc # "getCode" /\ HasCode(code) /\ sourceData.present /\ sourceData.isProxy
        /\ ~ValidAddressText(sourceData.implementation))
       => /\ result.detectionMethod # EtherscanApi
          /\ result.implementationAddress # sourceData.implementation
          /\ "eip1967" \in Range(attempted)

\* C2 witness: a checksummed declared implementation is returned after the
\* existence check alone
C2_Witness ==
  /\ pc = "done" /\ code = PlainCode
  /\ sourceData.isProxy
  /\ sourceData.implementation = getChecksumAddress(Prefix0x \o AddrB)
  /\ result.detectionMethod = EtherscanApi
  /\ result.implementationAddress = sourceData.implementation

\* C3 as stated: deployed code, no declared implementation and a non-zero
\* address at the EIP-1967 logic slot give isProxy=true, that address, and the
\* method tag eip1967
C3_Eip1967Tagged ==
  (pc = "done" /\ HasCode(code)
     /\ ~(sourceData.present /\ sourceData.isProxy /\ Truthy(sourceData.implementation))
     /\ answer.read = "eip1967" /\ CarriesAddress("eip1967", answer.value))
    => /\ result.isProxy
       /\ LowerCase(result.implementationAddress) = Prefix0x \o LowDigits(answer.value)
       /\ result.detectionMethod = <<"eip1967">>

\* C4 as stated: a minimal-proxy bytecode with embedded address A, resolved by
\* the bytecode match, gives isProxy=true, A checksummed, and the method tag
\* eip1167-bytecode
C4_Eip1167Tagged ==
  \A d \in EmbeddedDigits :
    (pc = "done" /\ code = Standard1167(d) /\ LastOf(attempted) = "eip1167")
      => /\ result.isProxy
         /\ result.implementationAddress = getChecksumAddress(Prefix0x \o d)
         /\ result.detectionMethod = <<"eip1167-bytecode">>

\* C5: with deployed code that is no minimal proxy, no registry record and
\* no probe naming an address, the call returns isProxy=false,
\* implementationAddress=null, no method and no error
C5_NothingFound ==
  (pc = "done" /\ ~sourceData.present /\ code = PlainCode /\ ~sawAddress)
    => result = NotProxyResult(Absent)

\* C5 witness: every probe up to the beacon's two calls was made and failed
C5_Witness ==
  /\ pc = "done" /\ ~sourceData.present /\ code = PlainCode /\ ~sawAddress
  /\ LastOf(attempted) = "beacon.childImplementation"
  /\ answer.value = Fail
  /\ ~result.isProxy

\* C6: an empty bytecode at the target ends the call at once with
\* isProxy=false, no implementation and an error annotation; nothing but the
\* existence check is attempted, whatever the registry record declares
C6_NoContractAborts ==
  (answer.read = "getCode" /\ answer.value \in {EmptyCode, EmptyCode0})
    => /\ pc = "done"
       /\ ~result.isProxy
       /\ result.implementationAddress = Null
       /\ result.error = NoContractError
       /\ attempted = <<"getCode">>

\* C6 witness: the registry declares a valid implementation and the bytecode
\* is the empty form 0x0
C6_Witness ==
  /\ pc = "done" /\ DeclaredImplementation
  /\ answer = [read |-> "getCode", value |-> EmptyCode0]
  /\ result.error = NoContractError

\* what "no answer" is for each kind of read
NoAnswerOf(read) ==
  IF read \in StorageReads THEN ZeroWord
  ELSE IF read \in CallReads THEN ZeroAddress
  ELSE EmptyCode

\* C7 as stated: a read after the existence check that fails is treated as
\* that read giving no answer: the run goes on exactly as it would have, and
\* the result carries no error
C7_FailureIsNoAnswer ==
  [][(pc \notin {"getCode", "done"} /\ answer'.value = Fail)
       => /\ pc' = Respond(pc, NoAnswerOf(pc), code, sourceData, attempted,
                           candidate, ctorIdx).pc
          /\ result'.error = Absent]_vars

-----------------------------------------------------------------------------
(* stripSolidityComments *)

NL == "\n"
BS == "\\"
DQ == "\""
SQ == "'"

\* the characters source texts are built from
Alphabet == {DQ, SQ, BS, "/", "*", NL, " ", "a"}

MaxLen == 4

\* texts put in front of the enumerated ones, so that a short text can follow
\* them: nothing, the complete literal "\\" (one escaped backslash), a line
\* followed by a line that holds one blank, and a backslash, an empty block
\* comment and an opening quote
Prefixes ==
  {<<>>, <<DQ, BS, BS, DQ>>, <<"a", NL, " ", NL>>,
   <<BS, "/", "*", "*", "/", DQ>>}

Texts(n) == UNION {[1..k -> Alphabet] : k \in 0..n}

SourceInputs == {p \o t : p \in Prefixes, t \in Texts(MaxLen)}

\* source[j] with the code's 0-based index; "" outside the text
At(s, j) == IF j >= 0 /\ j < Len(s) THEN s[j + 1] ELSE ""

\* s.slice(a, b) with 0-based bounds
Slice(s, a, b) == IF b <= a THEN <<>> ELSE SubSeq(s, a + 1, b)

\* the inner loop of a string literal entered with j just after the opening
\* quote: the index it leaves in i
RECURSIVE StringEnd(_, _, _)
StringEnd(s, j, q) ==
  IF j >= Len(s) THEN j
  ELSE IF At(s, j) = q /\ At(s, j - 1) # BS THEN j + 1
  ELSE StringEnd(s, j + 1, q)

\* the inner loop of a block comment entered with j just after the opening
\* marker: the index it leaves in i
RECURSIVE BlockEnd(_, _)
BlockEnd(s, j) ==
  IF j >= Len(s) - 1 THEN j
  ELSE IF At(s, j) = "*" /\ At(s, j + 1) = "/" THEN j + 2
  ELSE BlockEnd(s, j + 1)

\* the inner loop of a line comment: the index of the newline, or the length
RECURSIVE LineEnd(_, _)
LineEnd(s, j) ==
  IF j >= Len(s) \/ At(s, j) = NL THEN j ELSE LineEnd(s, j + 1)

OpensLiteral(s, j, q) == At(s, j) = q /\ (j = 0 \/ At(s, j - 1) # BS)

\* result.replace(/\n{3,}/g, '\n\n')
RECURSIVE CollapseNewlines(_)
CollapseNewlines(s) ==
  IF s = <<>> THEN <<>>
  ELSE IF Len(s) >= 3 /\ s[1] = NL /\ s[2] = NL /\ s[3] = NL
       THEN LET run == CHOOSE n \in 3..Len(s) :
                         /\ \A k \in 1..n : s[k] = NL
                         /\ (n = Len(s) \/ s[n + 1] # NL)
            IN  <<NL, NL>> \o CollapseNewlines(Drop(s, run))
       ELSE <<s[1]>> \o CollapseNewlines(Tail(s))

\* white space as trim and trimEnd see it, within the alphabet
IsSpace(c) == c = " " \/ c = NL

\* result.split('\n').map(line => line.trimEnd()).join('\n'): a blank is
\* dropped when only blanks stand between it and the end of its line
RECURSIVE TrimEndLines(_)
TrimEndLines(s) ==
  IF s = <<>> THEN <<>>
  ELSE LET rest == TrimEndLines(Tail(s)) IN
       IF s[1] = " " /\ (rest = <<>> \/ rest[1] = NL) THEN rest
       ELSE <<s[1]>> \o rest

RECURSIVE TrimStart(_)
TrimStart(s) ==
  IF s # <<>> /\ IsSpace(s[1]) THEN TrimStart(Tail(s)) ELSE s

RECURSIVE TrimEnd(_)
TrimEnd(s) ==
  IF s # <<>> /\ IsSpace(s[Len(s)]) THEN TrimEnd(SubSeq(s, 1, Len(s) - 1)) ELSE s

Trim(s) == TrimEnd(TrimStart(s))

\* lines 410-417
PostProcess(s) == Trim(TrimEndLines(CollapseNewlines(s))) \o <<NL>>

\* one iteration of the main loop, by the branch it takes (lines 341-408)

ScanString ==
  /\ spc = "scan" /\ i < Len(source)
  /\ \E q \in {SQ, DQ} :
       /\ OpensLiteral(source, i, q)
       /\ LET e == StringEnd(source, i + 1, q) IN
          /\ out' = out \o Slice(source, i, e)
          /\ i' = e
  /\ lastStep' = "string"
  /\ UNCHANGED <<source, spc, proxyVars, parseVars, saveVars, fetchVars>>

NoLiteralHere ==
  ~OpensLiteral(source, i, SQ) /\ ~OpensLiteral(source, i, DQ)

ScanBlockComment ==
  /\ spc = "scan" /\ i < Len(source)
  /\ NoLiteralHere
  /\ At(source, i) = "/" /\ At(source, i + 1) = "*"
  /\ i' = BlockEnd(source, i + 2)
  /\ lastStep' = "block"
  /\ UNCHANGED <<source, out, spc, proxyVars, parseVars, saveVars, fetchVars>>

ScanLineComment ==
  /\ spc = "scan" /\ i < Len(source)
  /\ NoLiteralHere
  /\ At(source, i) = "/" /\ At(source, i + 1) = "/"
  /\ LET e == LineEnd(source, i) IN
       IF e < Len(source)
       THEN out' = Append(out, NL) /\ i' = e + 1
       ELSE out' = out /\ i' = e
  /\ lastStep' = "line"
  /\ UNCHANGED <<source, spc, proxyVars, parseVars, saveVars, fetchVars>>

ScanRegular ==
  /\ spc = "scan" /\ i < Len(source)
  /\ NoLiteralHere
  /\ ~(At(source, i) = "/" /\ At(source, i + 1) \in {"*", "/"})
  /\ out' = Append(out, At(source, i))
  /\ i' = i + 1
  /\ lastStep' = "regular"
  /\ UNCHANGED <<source, spc, proxyVars, parseVars, saveVars, fetchVars>>

ScanFinish ==
  /\ spc = "scan" /\ i >= Len(source)
  /\ out' = PostProcess(out)
  /\ spc' = "done"
  /\ lastStep' = "post"
  /\ UNCHANGED <<source, i, proxyVars, parseVars, saveVars, fetchVars>>

ProxyIdle ==
  /\ pc = "idle" /\ sourceData = NoSourceData /\ code = Null
  /\ answer = NoAnswerYet /\ attempted = <<>> /\ candidate = Null
  /\ ctorIdx = 0 /\ sawAddress = FALSE /\ result = NoResult

InitStrip ==
  /\ source \in SourceInputs
  /\ i = 0 /\ out = <<>> /\ spc = "scan" /\ lastStep = "none"
  /\ ProxyIdle
  /\ ParseIdle
  /\ SaveIdle
  /\ FetchIdle

NextStrip ==
  ScanString \/ ScanBlockComment \/ ScanLineComment \/ ScanRegular \/ ScanFinish

SpecStrip == InitStrip /\ [][NextStrip]_vars

-----------------------------------------------------------------------------
(* stripSolidityComments: properties *)

\* Reference reading of a text: where a literal that opens at j closes (the
\* index of its closing quote), a backslash escaping the character after it;
\* -1 when the literal is not closed.
RECURSIVE LiteralClose(_, _, _)
LiteralClose(s, j, q) ==
  IF j >= Len(s) THEN -1
  ELSE IF At(s, j) = BS THEN LiteralClose(s, j + 2, q)
  ELSE IF At(s, j) = q THEN j
  ELSE LiteralClose(s, j + 1, q)

\* the index just after the first "*/" at or after j, or the length
RECURSIVE CommentClose(_, _)
CommentClose(s, j) ==
  IF j >= Len(s) THEN Len(s)
  ELSE IF At(s, j) = "*" /\ At(s, j + 1) = "/" THEN j + 2
  ELSE CommentClose(s, j + 1)

\* the closed literals of a text read from j in code state
RECURSIVE Literals(_, _)
Literals(s, j) ==
  IF j >= Len(s) THEN {}
  ELSE IF At(s, j) = BS THEN Literals(s, j + 2)
  ELSE IF At(s, j) \in {SQ, DQ}
       THEN LET e == LiteralClose(s, j + 1, At(s, j)) IN
            IF e < 0 THEN {}
            ELSE {Slice(s, j, e + 1)} \cup Literals(s, e + 1)
  ELSE IF At(s, j) = "/" /\ At(s, j + 1) = "*"
       THEN Literals(s, CommentClose(s, j + 2))
  ELSE IF At(s, j) = "/" /\ At(s, j + 1) = "/"
       THEN Literals(s, LineEnd(s, j))
  ELSE Literals(s, j + 1)

\* p stands somewhere in s
Contains(s, p) ==
  \E k \in 1..(Len(s) - Len(p) + 1) : SubSeq(s, k, k + Len(p) - 1) = p

\* C8 as stated, for the literals that hold no line break: every closed
\* string literal of the source stands unchanged in the stripper's output
C8_LiteralsPreserved ==
  spc = "done" =>
    \A lit \in Literals(source, 0) : NL \notin Range(lit) => Contains(out, lit)

\* C9 as stated: a block comment met in code state is discarded from its
\* opening marker through the first closing marker after it, or through the
\* last character of the text when none follows, and nothing is emitted
C9_BlockCommentDiscarded ==
  [][(spc = "scan" /\ lastStep' = "block")
       => /\ i' = CommentClose(source, i + 2)
          /\ out' = out]_vars

-----------------------------------------------------------------------------
(* parseSourceCode *)

Undefined == <<"UNDEFINED">>

\* the characters payloads are built from
PayloadAlphabet == {" ", NL, "{", "}", "a"}

MaxPayloadLen == 4

\* A JSON text is read element by element: the text of one member of its
\* top-level object (key, colon, value) is one element.  Members gives what
\* JSON.parse reads from a member: its key and its value, a value being its
\* JavaScript type (kind), its text when it is a string, its content property
\* when it is an object (Absent when it has none) and, for the object under
\* "sources", the entries of that object in order.
Members ==
  "\"A.sol\":\"a\"" :> [key |-> <<"A", ".", "s", "o", "l">>,
      value |-> [kind |-> "string", text |-> <<"a">>, content |-> Absent,
      files |-> <<>>]] @@
  "\"A.sol\":\"\"" :> [key |-> <<"A", ".", "s", "o", "l">>,
      value |-> [kind |-> "string", text |-> <<>>, content |-> Absent,
      files |-> <<>>]] @@
  "\"A.sol\":{\"content\":\"b\"}" :> [key |-> <<"A", ".", "s", "o", "l">>,
      value |-> [kind |-> "object", text |-> <<>>, content |-> <<"b">>,
      files |-> <<>>]] @@
  "\"A.sol\":{\"content\":\"\"}" :> [key |-> <<"A", ".", "s", "o", "l">>,
      value |-> [kind |-> "object", text |-> <<>>, content |-> <<>>,
      files |-> <<>>]] @@
  "\"A.sol\":{}" :> [key |-> <<"A", ".", "s", "o", "l">>,
      value |-> [kind |-> "object", text |-> <<>>, content |-> Absent,
      files |-> <<>>]] @@
  "\"A.sol\":5" :> [key |-> <<"A", ".", "s", "o", "l">>,
      value |-> [kind |-> "number", text |-> <<>>, content |-> Absent,
      files |-> <<>>]] @@
  "\"A.sol\":true" :> [key |-> <<"A", ".", "s", "o", "l">>,
      value |-> [kind |-> "boolean", text |-> <<>>, content |-> Absent,
      files |-> <<>>]] @@
  "\"A.sol\":null" :> [key |-> <<"A", ".", "s", "o", "l">>,
      value |-> [kind |-> "null", text |-> <<>>, content |-> Absent,
      files |-> <<>>]] @@
  "\"A.sol\":[]" :> [key |-> <<"A", ".", "s", "o", "l">>,
      value |-> [kind |-> "array", text |-> <<>>, content |-> Absent,
      files |-> <<>>]] @@
  "\"B.sol\":\"a\"" :> [key |-> <<"B", ".", "s", "o", "l">>,
      value |-> [kind |-> "string", text |-> <<"a">>, content |-> Absent,
      files |-> <<>>]] @@
  "\"B.sol\":\"\"" :> [key |-> <<"B", ".", "s", "o", "l">>,
      value |-> [kind |-> "string", text |-> <<>>, content |-> Absent,
      files |-> <<>>]] @@
  "\"B.sol\":{\"content\":\"b\"}" :> [key |-> <<"B", ".", "s", "o", "l">>,
      value |-> [kind |-> "object", text |-> <<>>, content |-> <<"b">>,
      files |-> <<>>]] @@
  "\"B.sol\":{\"content\":\"\"}" :> [key |-> <<"B", ".", "s", "o", "l">>,
      value |-> [kind |-> "object", text |-> <<>>, content |-> <<>>,
      files |-> <<>>]] @@
  "\"B.sol\":{}" :> [key |-> <<"B", ".", "s", "o", "l">>,
      value |-> [kind |-> "object", text |-> <<>>, content |-> Absent,
      files |-> <<>>]] @@
  "\"B.sol\":5" :> [key |-> <<"B", ".", "s", "o", "l">>,
      value |-> [kind |-> "number", text |-> <<>>, content |-> Absent,
      files |-> <<>>]] @@
  "\"B.sol\":true" :> [key |-> <<"B", ".", "s", "o", "l">>,
      value |-> [kind |-> "boolean", text |-> <<>>, content |-> Absent,
      files |-> <<>>]] @@
  "\"B.sol\":null" :> [key |-> <<"B", ".", "s", "o", "l">>,
      value |-> [kind |-> "null", text |-> <<>>, content |-> Absent,
      files |-> <<>>]] @@
  "\"B.sol\":[]" :> [key |-> <<"B", ".", "s", "o", "l">>,
      value |-> [kind |-> "array", text |-> <<>>, content |-> Absent,
      files |-> <<>>]] @@
  "\"sources\":{\"A.sol\":{\"content\":\"a\"},\"B.sol\":{}}" :> [key |-> <<"s",
      "o", "u", "r", "c", "e", "s">>, value |-> [kind |-> "object",
      text |-> <<>>, content |-> Absent, files |-> <<[key |-> <<"A", ".",
      "s", "o", "l">>, data |-> [kind |-> "object", content |-> <<"a">>]],
      [key |-> <<"B", ".", "s", "o", "l">>, data |-> [kind |-> "object",
      content |-> Absent]]>>]] @@
  "\"sources\":{}" :> [key |-> <<"s", "o", "u", "r", "c", "e", "s">>,
      value |-> [kind |-> "object", text |-> <<>>, content |-> Absent,
      files |-> <<>>]] @@
  "\"sources\":{\"A.sol\":null}" :> [key |-> <<"s", "o", "u", "r", "c", "e",
      "s">>, value |-> [kind |-> "object", text |-> <<>>, content |-> Absent,
      files |-> <<[key |-> <<"A", ".", "s", "o", "l">>,
      data |-> [kind |-> "null", content |-> Absent]]>>]] @@
  "\"sources\":null" :> [key |-> <<"s", "o", "u", "r", "c", "e", "s">>,
      value |-> [kind |-> "null", text |-> <<>>, content |-> Absent,
      files |-> <<>>]] @@
  "\"src/Main.sol\":{\"content\":\"contract Main{}\"}" :> [key |-> <<"s",
      "r", "c", "/", "M", "a", "i", "n", ".", "s", "o", "l">>,
      value |-> [kind |-> "object", text |-> <<>>, content |-> <<"c", "o",
      "n", "t", "r", "a", "c", "t", " ", "M", "a", "i", "n", "{", "}">>,
      files |-> <<>>]] @@
  "\"src/XMain.sol\":{\"content\":\"library X{}\"}" :> [key |-> <<"s", "r",
      "c", "/", "X", "M", "a", "i", "n", ".", "s", "o", "l">>,
      value |-> [kind |-> "object", text |-> <<>>, content |-> <<"l", "i",
      "b", "r", "a", "r", "y", " ", "X", "{", "}">>, files |-> <<>>]] @@
  "\"contracts/vendor/Foo.sol\":{\"content\":\"interface Foo{}\"}" :> [key |-> <<"c",
      "o", "n", "t", "r", "a", "c", "t", "s", "/", "v", "e", "n", "d", "o",
      "r", "/", "F", "o", "o", ".", "s", "o", "l">>,
      value |-> [kind |-> "object", text |-> <<>>, content |-> <<"i", "n",
      "t", "e", "r", "f", "a", "c", "e", " ", "F", "o", "o", "{", "}">>,
      files |-> <<>>]] @@
  "\"build/Mock.sol\":{\"content\":\"contract M{}//\"}" :> [key |-> <<"b",
      "u", "i", "l", "d", "/", "M", "o", "c", "k", ".", "s", "o", "l">>,
      value |-> [kind |-> "object", text |-> <<>>, content |-> <<"c", "o",
      "n", "t", "r", "a", "c", "t", " ", "M", "{", "}", "/", "/">>,
      files |-> <<>>]] @@
  "\"lib/chainlink/A.sol\":{\"content\":\"contract A{function f()public{}}\"}" :> [key |-> <<"l",
      "i", "b", "/", "c", "h", "a", "i", "n", "l", "i", "n", "k", "/", "A",
      ".", "s", "o", "l">>, value |-> [kind |-> "object", text |-> <<>>,
      content |-> <<"c", "o", "n", "t", "r", "a", "c", "t", " ", "A", "{",
      "f", "u", "n", "c", "t", "i", "o", "n", " ", "f", "(", ")", "p", "u",
      "b", "l", "i", "c", "{", "}", "}">>, files |-> <<>>]] @@
  "\"/src/Main.sol\":{\"content\":\"contract Main{ }\"}" :> [key |-> <<"/",
      "s", "r", "c", "/", "M", "a", "i", "n", ".", "s", "o", "l">>,
      value |-> [kind |-> "object", text |-> <<>>, content |-> <<"c", "o",
      "n", "t", "r", "a", "c", "t", " ", "M", "a", "i", "n", "{", " ", "}">>,
      files |-> <<>>]] @@
  "\"chainlink/../src/Main.sol\":{\"content\":\"x\"}" :> [key |-> <<"c", "h",
      "a", "i", "n", "l", "i", "n", "k", "/", ".", ".", "/", "s", "r", "c",
      "/", "M", "a", "i", "n", ".", "s", "o", "l">>,
      value |-> [kind |-> "object", text |-> <<>>, content |-> <<"x">>,
      files |-> <<>>]] @@
  "\"../implementation/src/Main.sol\":{\"content\":\"contract P{}\"}" :> [key |-> <<".",
    ".", "/", "i", "m", "p", "l", "e", "m", "e", "n", "t", "a", "t", "i",
    "o", "n", "/", "s", "r", "c", "/", "M", "a", "i", "n", ".", "s", "o",
    "l">>,
      value |-> [kind |-> "object", text |-> <<>>, content |-> <<"c", "o",
        "n", "t", "r", "a", "c", "t", " ", "P", "{", "}">>,
      files |-> <<>>]] @@
  "\"src/E.sol\":\"\"" :> [key |-> <<"s", "r", "c", "/", "E", ".", "s", "o",
      "l">>, value |-> [kind |-> "string", text |-> <<>>, content |-> Absent,
      files |-> <<>>]]

FlatMembers ==
  {"\"A.sol\":\"a\"", "\"A.sol\":\"\"", "\"A.sol\":{\"content\":\"b\"}",
      "\"A.sol\":{\"content\":\"\"}", "\"A.sol\":{}", "\"A.sol\":5",
      "\"A.sol\":true", "\"A.sol\":null", "\"A.sol\":[]", "\"B.sol\":\"a\"",
      "\"B.sol\":\"\"", "\"B.sol\":{\"content\":\"b\"}",
      "\"B.sol\":{\"content\":\"\"}", "\"B.sol\":{}", "\"B.sol\":5",
      "\"B.sol\":true", "\"B.sol\":null", "\"B.sol\":[]"}

SourcesMembers ==
  {"\"sources\":{\"A.sol\":{\"content\":\"a\"},\"B.sol\":{}}",
      "\"sources\":{}", "\"sources\":{\"A.sol\":null}", "\"sources\":null"}

MaxMembers == 2

\* the members of an object separated by commas
RECURSIVE Joined(_)
Joined(ms) ==
  IF ms = <<>> THEN <<>>
  ELSE IF Len(ms) = 1 THEN ms
  ELSE <<ms[1], ",">> \o Joined(Tail(ms))

JsonObjects ==
  {<<"{">> \o Joined(ms) \o <<"}">> :
     ms \in UNION {[1..k -> FlatMembers \cup SourcesMembers] : k \in 0..MaxMembers}}

\* JSON texts as the registry sends them: plain, or wrapped in a second pair
\* of braces
JsonPayloads == JsonObjects \cup {<<"{">> \o t \o <<"}">> : t \in JsonObjects}

PayloadInputs ==
  {Null, Undefined}
    \cup UNION {[1..k -> PayloadAlphabet] : k \in 0..MaxPayloadLen}
    \cup JsonPayloads

ContractSol == <<"c", "o", "n", "t", "r", "a", "c", "t", ".", "s", "o", "l">>

SourcesKey == <<"s", "o", "u", "r", "c", "e", "s">>

OneFile(path, content) == <<[key |-> path, content |-> content]>>

\* !sourceCode || sourceCode === ''
IsMissing(sourceCode) ==
  sourceCode = Null \/ sourceCode = Undefined \/ sourceCode = <<>>

\* obj[key] = value on an object kept as its entries in insertion order: an
\* existing key keeps its place and takes the new value
SetKey(obj, key, field, v) ==
  IF \E k \in 1..Len(obj) : obj[k].key = key
  THEN [k \in 1..Len(obj) |->
          IF obj[k].key = key THEN [obj[k] EXCEPT ![field] = v] ELSE obj[k]]
  ELSE Append(obj, [key |-> key] @@ (field :> v))

RECURSIVE ObjectOf(_, _)
ObjectOf(ms, obj) ==
  IF ms = <<>> THEN obj
  ELSE ObjectOf(Tail(ms), SetKey(obj, Members[ms[1]].key, "value",
      Members[ms[1]].value))

\* JSON.parse on a text that starts with a brace: the object's entries, or a
\* SyntaxError (ok is FALSE).  The text must be a brace, members separated by
\* commas and a closing brace, with white space allowed between them; a
\* repeated key keeps its last value.
JSONParse(t) ==
  LET body == SelectSeq(Slice(t, 1, Len(t) - 1), LAMBDA c : ~IsSpace(c))
      n == (Len(body) + 1) \div 2
      wellFormed ==
        /\ Len(t) >= 2 /\ t[1] = "{" /\ t[Len(t)] = "}"
        /\ \/ body = <<>>
           \/ /\ Len(body) % 2 = 1
              /\ \A k \in 1..Len(body) :
                   IF k % 2 = 1 THEN body[k] \in DOMAIN Members ELSE body[k] = ","
  IN  IF wellFormed
      THEN [ok |-> TRUE,
          object |-> ObjectOf([k \in 1..n |-> body[2 * k - 1]], <<>>)]
      ELSE [ok |-> FALSE, object |-> <<>>]

\* jsonSource.sources: the value under the key, or one of kind "undefined"
UndefinedValue == [kind |-> "undefined", text |-> <<>>, content |-> Absent,
    files |-> <<>>]

GetSources(obj) ==
  IF \E k \in 1..Len(obj) : obj[k].key = SourcesKey
  THEN obj[CHOOSE k \in 1..Len(obj) : obj[k].key = SourcesKey].value
  ELSE UndefinedValue

\* truthiness of the values met here: objects and arrays are truthy, null and
\* undefined are not
TruthyValue(v) ==
  CASE v.kind \in {"object", "array"} -> TRUE
    [] v.kind = "string" -> v.text # <<>>
    [] v.kind \in {"number", "boolean"} -> TRUE
    [] OTHER -> FALSE

\* lines 222-225: a null fileData makes fileData.content raise a TypeError
RECURSIVE FilesOfSources(_, _)
FilesOfSources(entries, files) ==
  IF entries = <<>> THEN [ok |-> TRUE, files |-> files]
  ELSE LET e == entries[1] IN
       IF e.data.kind = "null" THEN [ok |-> FALSE, files |-> files]
       ELSE FilesOfSources(Tail(entries),
              SetKey(files, e.key, "content",
                     IF Truthy(e.data.content) THEN e.data.content ELSE <<>>))

\* lines 235-242: a null value makes content.content raise a TypeError
RECURSIVE FilesOfEntries(_, _)
FilesOfEntries(entries, files) ==
  IF entries = <<>> THEN [ok |-> TRUE, files |-> files]
  ELSE LET e == entries[1] IN
       IF e.value.kind = "string"
       THEN FilesOfEntries(Tail(entries), SetKey(files, e.key, "content",
           e.value.text))
       ELSE IF e.value.kind = "null" THEN [ok |-> FALSE, files |-> files]
       ELSE IF Truthy(e.value.content)
       THEN FilesOfEntries(Tail(entries), SetKey(files, e.key, "content",
           e.value.content))
       ELSE FilesOfEntries(Tail(entries), files)

parseSourceCode(sourceCode) ==
  IF IsMissing(sourceCode) THEN [type |-> "empty", files |-> NoFiles]
  ELSE LET trimmed0 == Trim(sourceCode)
           trimmedSource ==
             IF StartsWith(trimmed0, <<"{", "{">>) /\ EndsWith(trimmed0,
                 <<"}", "}">>)
             THEN Slice(trimmed0, 1, Len(trimmed0) - 1)
             ELSE trimmed0
           jsonSource ==
             IF StartsWith(trimmedSource,
                 <<"{">>) THEN JSONParse(trimmedSource)
             ELSE [ok |-> FALSE, object |-> <<>>]
           sources == GetSources(jsonSource.object)
           files ==
             IF TruthyValue(sources) THEN FilesOfSources(sources.files,
                 NoFiles)
             ELSE FilesOfEntries(jsonSource.object, NoFiles)
       IN  IF jsonSource.ok /\ files.ok
           THEN [type |-> "multi-file", files |-> files.files]
           ELSE [type |-> "single-file", files |-> OneFile(ContractSol,
               sourceCode)]

ParseCall ==
  /\ ppc = "call"
  /\ parsed' = parseSourceCode(payload)
  /\ ppc' = "done"
  /\ UNCHANGED <<payload, proxyVars, stripVars, saveVars, fetchVars>>

InitParse ==
  /\ payload \in PayloadInputs
  /\ parsed = NotParsed
  /\ ppc = "call"
  /\ ProxyIdle
  /\ StripIdle
  /\ SaveIdle
  /\ FetchIdle

NextParse == ParseCall

SpecParse == InitParse /\ [][NextParse]_vars


-----------------------------------------------------------------------------
(* parseSourceCode: properties *)

\* C10 as stated: every empty or blank input (the empty string, null,
\* undefined, white space only) parses to type empty with no files
C10_BlankIsEmpty ==
  (ppc = "done" /\ (payload \in {Null, Undefined} \/ AllIn(payload, {" ", NL})))
    => parsed = [type |-> "empty", files |-> NoFiles]

\* the object a JSON payload denotes
PayloadObject ==
  IF payload \in JsonObjects THEN JSONParse(payload).object
  ELSE JSONParse(Slice(payload, 1, Len(payload) - 1)).object

\* a value that holds file text: a string, or an object whose content
\* property is a string
HoldsText(v) == v.kind = "string" \/ (v.kind = "object" /\ v.content # Absent)

TextOf(v) == IF v.kind = "string" THEN v.text ELSE v.content

\* C11 as stated: a JSON object without a sources key parses to a multi-file
\* tree with exactly one entry for each key whose value is a string or an
\* object with a string content (the empty string included), with that text
\* as content, and no entry for a key whose value has another shape
C11_FlatObjectFiles ==
  (ppc = "done" /\ payload \in JsonPayloads
     /\ \A k \in 1..Len(PayloadObject) : PayloadObject[k].key # SourcesKey)
    => /\ parsed.type = "multi-file"
       /\ \A k \in 1..Len(PayloadObject) :
            LET e == PayloadObject[k]
                hits == {j \in 1..Len(parsed.files) : parsed.files[j].key = e.key}
            IN  IF HoldsText(e.value)
                THEN /\ Cardinality(hits) = 1
                     /\ \A j \in hits : parsed.files[j].content = TextOf(e.value)
                ELSE hits = {}
       /\ \A j \in 1..Len(parsed.files) :
            \E k \in 1..Len(PayloadObject) : PayloadObject[k].key = parsed.files[j].key

-----------------------------------------------------------------------------
(* Paths and source text as sourceParser.js reads them *)

WordChars ==
  {"a", "b", "c", "d", "e", "f", "g", "h", "i", "j", "k", "l", "m", "n", "o",
      "p", "q", "r", "s", "t", "u", "v", "w", "x", "y", "z", "A", "B", "C",
      "D", "E", "F", "G", "H", "I", "J", "K", "L", "M", "N", "O", "P", "Q",
      "R", "S", "T", "U", "V", "W", "X", "Y", "Z", "0", "1", "2", "3", "4",
      "5", "6", "7", "8", "9", "_"}

\* p stands in s from position k (1-based) on
MatchAt(s, k, p) ==
  k >= 1 /\ k + Len(p) - 1 <= Len(s) /\ SubSeq(s, k, k + Len(p) - 1) = p

Includes(s, p) == \E k \in 1..(Len(s) - Len(p) + 1) : MatchAt(s, k, p)

\* \b before position k
BoundaryBefore(s, k) == k = 1 \/ s[k - 1] \notin WordChars

\* the first position at or after k that holds no character of class C
RECURSIVE SkipWhile(_, _, _)
SkipWhile(s, k, C) ==
  IF k <= Len(s) /\ s[k] \in C THEN SkipWhile(s, k + 1, C) ELSE k

\* path.split('/')
RECURSIVE Split(_)
Split(p) ==
  IF \A k \in 1..Len(p) : p[k] # "/" THEN <<p>>
  ELSE LET k == CHOOSE j \in 1..Len(p) : p[j] = "/" /\ \A h \in 1..(j - 1) : p[h] # "/"
       IN  <<SubSeq(p, 1, k - 1)>> \o Split(Drop(p, k))

\* segments.join('/')
RECURSIVE JoinPath(_)
JoinPath(segs) ==
  IF segs = <<>> THEN <<>>
  ELSE IF Len(segs) = 1 THEN segs[1]
  ELSE segs[1] \o <<"/">> \o JoinPath(Tail(segs))

\* path.normalize on the segments of an absolute path: empty and "."
\* segments are dropped and ".." removes the segment before it (nothing at
\* the root)
RECURSIVE Normalize(_, _)
Normalize(segs, acc) ==
  IF segs = <<>> THEN acc
  ELSE IF segs[1] = <<>> \/ segs[1] = <<".">> THEN Normalize(Tail(segs), acc)
  ELSE IF segs[1] = <<".", ".">>
       THEN Normalize(Tail(segs), IF acc = <<>> THEN acc ELSE SubSeq(acc, 1,
           Len(acc) - 1))
  ELSE Normalize(Tail(segs), Append(acc, segs[1]))

\* path.basename(p)
basename(p) ==
  LET segs == SelectSeq(Split(p), LAMBDA s : s # <<>>)
  IN  IF segs = <<>> THEN <<>> ELSE segs[Len(segs)]

DotSol == <<".", "s", "o", "l">>

\* path.basename(p, '.sol')
basenameWithout(p, ext) ==
  LET b == basename(p)
  IN  IF EndsWith(b, ext) /\ b # ext THEN SubSeq(b, 1,
      Len(b) - Len(ext)) ELSE b

\* path.relative(from, to) on normalized absolute paths, as text
RECURSIVE Relative(_, _)
Relative(from, to) ==
  IF from # <<>> /\ to # <<>> /\ from[1] = to[1] THEN Relative(Tail(from),
      Tail(to))
  ELSE JoinPath([k \in 1..Len(from) |-> <<".", ".">>] \o to)

\* /\b(?:contract|library)\s+<name>\b/.test(content)
Declares(content, name) ==
  \E k \in 1..Len(content) :
    \E kw \in {<<"c", "o", "n", "t", "r", "a", "c", "t">>, <<"l", "i", "b",
        "r", "a", "r", "y">>} :
      /\ MatchAt(content, k, kw) /\ BoundaryBefore(content, k)
      /\ LET a == k + Len(kw)
             b == SkipWhile(content, a, {" ", NL})
         IN  /\ b > a
             /\ MatchAt(content, b, name)
             /\ name # <<>> /\ name[1] \in WordChars /\ name[Len(name)] \in WordChars
             /\ (b + Len(name) > Len(content) \/ content[b + Len(name)] \notin WordChars)

\* where /function\s+\w+/ matches from k on: the position after the name, 0
\* when it does not match
FunctionHead(content, k) ==
  IF MatchAt(content, k, <<"f", "u", "n", "c", "t", "i", "o", "n">>)
  THEN LET a == k + 8
           b == SkipWhile(content, a, {" ", NL})
           c == SkipWhile(content, b, WordChars)
       IN  IF b > a /\ c > b THEN c ELSE 0
  ELSE 0

\* (content.match(/function\s+\w+[^{]*(?:external|public)/g) || []).length:
\* the function heads followed, before any opening brace, by one of the two
\* visibility words
PublicFunctions(content) ==
  Cardinality({k \in 1..Len(content) :
    /\ FunctionHead(content, k) > 0
    /\ \E j \in FunctionHead(content, k)..Len(content) :
         /\ MatchAt(content, j, <<"e", "x", "t", "e", "r", "n", "a",
             "l">>) \/ MatchAt(content, j, <<"p", "u", "b", "l", "i", "c">>)
         /\ \A h \in FunctionHead(content, k)..(j - 1) : content[h] # "{"})

\* stripSolidityComments as a function of its input: the main loop from
\* index j with result so far acc, then the clean-up
RECURSIVE StripFrom(_, _, _)
StripFrom(s, j, acc) ==
  IF j >= Len(s) THEN acc
  ELSE IF OpensLiteral(s, j, SQ) \/ OpensLiteral(s, j, DQ)
       THEN LET e == StringEnd(s, j + 1, At(s, j))
            IN  StripFrom(s, e, acc \o Slice(s, j, e))
  ELSE IF At(s, j) = "/" /\ At(s, j + 1) = "*"
       THEN StripFrom(s, BlockEnd(s, j + 2), acc)
  ELSE IF At(s, j) = "/" /\ At(s, j + 1) = "/"
       THEN LET e == LineEnd(s, j)
            IN  IF e < Len(s) THEN StripFrom(s, e + 1, Append(acc, NL))
                ELSE StripFrom(s, e, acc)
  ELSE StripFrom(s, j + 1, Append(acc, At(s, j)))

stripSolidityComments(s) == PostProcess(StripFrom(s, 0, <<>>))

\* the live body of shouldExcludeFromAudit: every path is a custom contract
shouldExcludeFromAudit(filePath) ==
  [shouldExclude |-> FALSE, reason |-> "custom-contract", warning |-> Absent,
   note |-> Absent]

\* /\binterface\s+\w+/.test(text)
InterfaceDeclared(t) ==
  \E k \in 1..Len(t) :
    /\ MatchAt(t, k, <<"i", "n", "t", "e", "r", "f", "a", "c",
        "e">>) /\ BoundaryBefore(t, k)
    /\ LET a == k + 9
           b == SkipWhile(t, a, {" ", NL})
       IN  b > a /\ SkipWhile(t, b, WordChars) > b

\* /function\s+\w+[^;]*\{[^}]+\}/.test(text)
HasFunctionBodies(t) ==
  \E k \in 1..Len(t) :
    /\ FunctionHead(t, k) > 0
    /\ \E b \in FunctionHead(t, k)..Len(t) : \E c \in (b + 2)..Len(t) :
         /\ t[b] = "{" /\ t[c] = "}"
         /\ \A h \in FunctionHead(t, k)..(b - 1) : t[h] # ";"
         /\ \A h \in (b + 1)..(c - 1) : t[h] # "}"

isPureInterface(content) ==
  LET withoutComments == stripSolidityComments(content)
  IN  InterfaceDeclared(withoutComments) /\ ~HasFunctionBodies(withoutComments)

\* the first index in 1..n that satisfies P, 0 when there is none
FirstIndex(n, P(_)) ==
  IF \E k \in 1..n : P(k) THEN CHOOSE k \in 1..n : P(k) /\ \A j \in 1..(k - 1) : ~P(j)
  ELSE 0

\* Strategy 3: the loop over fileEntries from k on
RECURSIVE LargestFrom(_, _, _, _)
LargestFrom(files, k, largestFile, largestSize) ==
  IF k > Len(files) THEN largestFile
  ELSE IF shouldExcludeFromAudit(files[k].key).shouldExclude
       THEN LargestFrom(files, k + 1, largestFile, largestSize)
  ELSE IF Len(files[k].content) > largestSize
       THEN LargestFrom(files, k + 1, files[k].key, Len(files[k].content))
  ELSE LargestFrom(files, k + 1, largestFile, largestSize)

\* Strategy 4: the loop over fileEntries from k on
RECURSIVE MostFunctionsFrom(_, _, _, _)
MostFunctionsFrom(files, k, largestFile, mostFunctions) ==
  IF k > Len(files) THEN largestFile
  ELSE IF shouldExcludeFromAudit(files[k].key).shouldExclude
       THEN MostFunctionsFrom(files, k + 1, largestFile, mostFunctions)
  ELSE IF PublicFunctions(files[k].content) > mostFunctions
       THEN MostFunctionsFrom(files, k + 1, files[k].key,
           PublicFunctions(files[k].content))
  ELSE MostFunctionsFrom(files, k + 1, largestFile, mostFunctions)

DetectBySize(files) ==
  LET largestFile == LargestFrom(files, 1, Null, 0)
  IN  IF largestFile = Null THEN MostFunctionsFrom(files, 1, largestFile, 0)
      ELSE largestFile

DetectByName(files, contractName) ==
  LET hit(k) == \/ basenameWithout(files[k].key, DotSol) = contractName
                \/ Declares(files[k].content, contractName)
      k2 == IF Truthy(contractName) THEN FirstIndex(Len(files), hit) ELSE 0
  IN  IF k2 > 0 THEN files[k2].key ELSE DetectBySize(files)

detectMainContract(files, contractName, contractFileName) ==
  LET hit(k) == \/ EndsWith(files[k].key, contractFileName)
                \/ basename(files[k].key) = contractFileName
      k1 == IF Truthy(contractFileName) THEN FirstIndex(Len(files),
          hit) ELSE 0
  IN  IF k1 > 0 THEN files[k1].key ELSE DetectByName(files, contractName)

NoCategories ==
  [criticalFiles |-> <<>>, redFlagFiles |-> <<>>, interfaces |-> <<>>,
   excluded |-> <<>>, warnings |-> <<>>]

\* the loop of categorizeFilesForAudit from k on
RECURSIVE CategorizeFrom(_, _, _, _)
CategorizeFrom(files, mainContract, k, c) ==
  IF k > Len(files) THEN c
  ELSE LET filePath == files[k].key
           exclusion == shouldExcludeFromAudit(filePath)
           next ==
             IF Truthy(exclusion.warning)
             THEN [c EXCEPT !.warnings = Append(@, filePath),
                            !.redFlagFiles = Append(@, filePath),
                            !.criticalFiles = Append(@, filePath)]
             ELSE IF exclusion.shouldExclude
             THEN [c EXCEPT !.excluded = Append(@, filePath)]
             ELSE IF filePath = mainContract THEN c
             ELSE IF isPureInterface(files[k].content)
             THEN [c EXCEPT !.interfaces = Append(@, filePath),
                            !.warnings = IF Truthy(exclusion.note)
                                         THEN Append(@, filePath) ELSE @]
             ELSE [c EXCEPT !.criticalFiles = Append(@, filePath)]
       IN  CategorizeFrom(files, mainContract, k + 1, next)

categorizeFilesForAudit(files, mainContract) ==
  CategorizeFrom(files, mainContract, 1, NoCategories)

\* generateAuditMetadata, as far as the categories go
generateAuditMetadata(files, contractName, contractFileName) ==
  LET mainContract == detectMainContract(files, contractName,
      contractFileName)
  IN  [mainContractPath |-> mainContract,
       categories |-> categorizeFilesForAudit(files, mainContract)]

-----------------------------------------------------------------------------
(* processAndSaveSource and saveSourceFiles *)

\* the members of the registry payloads handed to processAndSaveSource
SaveMembers ==
  {"\"src/Main.sol\":{\"content\":\"contract Main{}\"}",
      "\"src/XMain.sol\":{\"content\":\"library X{}\"}",
      "\"contracts/vendor/Foo.sol\":{\"content\":\"interface Foo{}\"}",
      "\"build/Mock.sol\":{\"content\":\"contract M{}//\"}",
      "\"lib/chainlink/A.sol\":{\"content\":\"contract A{function f()public{}}\"}",
      "\"/src/Main.sol\":{\"content\":\"contract Main{ }\"}",
      "\"chainlink/../src/Main.sol\":{\"content\":\"x\"}",
      "\"../implementation/src/Main.sol\":{\"content\":\"contract P{}\"}",
      "\"src/E.sol\":\"\""}

MaxSaveMembers == 2

SaveObjects ==
  {<<"{">> \o Joined(ms) \o <<"}">> :
     ms \in UNION {[1..k -> SaveMembers] : k \in 0..MaxSaveMembers}}

\* source code as the registry sends it: one Solidity text, or a JSON object
\* of files
SaveSourceCodes == {<<"c", "o", "n", "t", "r", "a", "c", "t", " ", "M", "a", "i", "n", "{", "}">>, <<"x">>} \cup SaveObjects

ContractNames == {<<>>, <<"M", "a", "i", "n">>, <<"c", "o", "n", "t", "r", "a", "c", "t">>}

ContractFileNames == {Absent, <<"M", "a", "i", "n", ".", "s", "o", "l">>}

SaveChain == <<"b", "s", "c">>

SaveAddress == <<"0", "x", "A">>

VerifiedSources ==
  [isVerified : {TRUE}, sourceCode : SaveSourceCodes,
   contractName : ContractNames, contractFileName : ContractFileNames,
   chainName : {SaveChain}, contractAddress : {SaveAddress}]

UnverifiedSource ==
  [isVerified |-> FALSE, sourceCode |-> <<>>, contractName |-> <<>>,
   contractFileName |-> Absent, chainName |-> SaveChain,
   contractAddress |-> SaveAddress]

ContractTypes == {"main", "proxy", "implementation"}

SaveCalls ==
  [sourceData : VerifiedSources \cup {UnverifiedSource},
   contractType : ContractTypes, baseContractAddress : {Null}]

OUTPUT_DIR == <<"e", "v", "m", "-", "c", "h", "a", "i", "n", "-", "c", "o", "n", "t", "r", "a", "c", "t", "s">>

\* path.join(OUTPUT_DIR, chainName, contractAddress), as path segments
createOutputDirectory(chain, contractAddress) ==
  <<OUTPUT_DIR, chain, contractAddress>>

\* what an earlier run may have left in the output directory
EarlierFiles ==
  {{}, {[path |-> createOutputDirectory(SaveChain, SaveAddress)
                    \o <<<<"l", "i", "b">>, <<"c", "h", "a", "i", "n", "l", "i", "n", "k">>, <<"A", ".", "s", "o", "l">>>>,
         content |-> <<"o", "l", "d">>]}}

\* config/contract-blacklist.json: contractFileNames
Blacklist == {<<"c", "h", "a", "i", "n", "l", "i", "n", "k", "/">>}

\* loadBlacklist
loadBlacklist == Blacklist

isBlacklisted(filePath) ==
  IF filePath = <<>> THEN FALSE
  ELSE IF loadBlacklist = {} THEN FALSE
  ELSE \E pattern \in loadBlacklist : Includes(filePath, pattern)

\* subDir as path segments
SubDir(type) ==
  IF type = "proxy" THEN <<<<"p", "r", "o", "x", "y">>>>
  ELSE IF type = "implementation" THEN <<<<"i", "m", "p", "l", "e", "m", "e", "n", "t", "a", "t", "i", "o", "n">>>>
  ELSE <<>>

\* path.join(baseDir, subDir, normalizedPath), as path segments
FullPath(base, type, normalizedPath) ==
  Normalize(base \o SubDir(type) \o Split(normalizedPath), <<>>)

\* what earlier passes over another source, the one file src/Old.sol, have
\* left in the directory of a contract type: the file as it was written
\* and the manifest
EarlierPassFile(type) ==
  [path |-> FullPath(createOutputDirectory(SaveChain, SaveAddress), type,
                     <<"s", "r", "c", "/", "O", "l", "d", ".", "s", "o", "l">>),
   content |-> stripSolidityComments(
     <<"c", "o", "n", "t", "r", "a", "c", "t", " ", "O", "l", "d", "{", "}">>)]

StaleManifest(type) ==
  [mainContract |-> <<"O", "l", "d", ".", "s", "o", "l">>,
   mainContractPath |-> <<"s", "r", "c", "/", "O", "l", "d", ".", "s", "o", "l">>,
   contractType |-> type]

EarlierManifest(type) ==
  [dir |-> Normalize(createOutputDirectory(SaveChain, SaveAddress)
                       \o SubDir(type), <<>>),
   manifest |-> StaleManifest(type)]

\* the output directory as a pass finds it: with or without the file of
\* EarlierFiles, and with or without the files and manifests of earlier
\* passes of each contract type
EarlierRuns ==
  {[disk |-> d, manifests |-> {}] : d \in EarlierFiles}
    \cup {[disk |-> d \cup {EarlierPassFile(type) : type \in ContractTypes},
           manifests |-> {EarlierManifest(type) : type \in ContractTypes}] :
            d \in EarlierFiles}

\* normalizedPath: one leading slash removed
StripLeadingSlash(filePath) ==
  IF StartsWith(filePath, <<"/">>) THEN Drop(filePath, 1) ELSE filePath

\* a file stands at p
IsFile(d, p) == \E f \in d : f.path = p

\* fs.writeFileSync(p, c)
WriteFileSync(d, p, c) == {f \in d : f.path # p} \cup {[path |-> p, content |-> c]}

\* fs.unlinkSync(p) on a file
UnlinkSync(d, p) == {f \in d : f.path # p}

\* the rename of a single-file tree to <contractName>.sol
RenameSingle(files, contractName) ==
  LET oldKey == files[1].key
      newKey == contractName \o DotSol
      set == SetKey(files, newKey, "content", files[1].content)
  IN  SelectSeq(set, LAMBDA e : e.key # oldKey)

\* processAndSaveSource up to the call of saveSourceFiles: the tree handed on
ParsedForSave(sd) ==
  LET p == parseSourceCode(sd.sourceCode)
  IN  IF p.type = "single-file" /\ Truthy(sd.contractName)
      THEN [p EXCEPT !.files = RenameSingle(p.files, sd.contractName)]
      ELSE p

NotVerifiedResult(sd) ==
  [success |-> FALSE, error |-> "Contract is not verified",
   contractAddress |-> sd.contractAddress, chainName |-> sd.chainName]

\* processAndSaveSource from its entry to the first iteration of the write
\* loop of saveSourceFiles
ProcessStart ==
  /\ svpc = "process"
  /\ LET sd == saveCall.sourceData
         saveAddress == IF Truthy(saveCall.baseContractAddress)
                        THEN saveCall.baseContractAddress ELSE sd.contractAddress
     IN  IF ~sd.isVerified
         THEN /\ saveResult' = NotVerifiedResult(sd)
              /\ svpc' = "done"
              /\ UNCHANGED <<parsedSource, baseDir>>
         ELSE /\ parsedSource' = ParsedForSave(sd)
              /\ baseDir' = createOutputDirectory(sd.chainName, saveAddress)
              /\ svpc' = "save"
              /\ UNCHANGED saveResult
  /\ fileIdx' = 1 /\ delIdx' = 1
  /\ savedFiles' = <<>> /\ keptFiles' = <<>> /\ excludedFiles' = <<>>
  /\ blacklistedFiles' = <<>> /\ deletedFiles' = <<>> /\ excludedReasons' = <<>>
  /\ UNCHANGED <<saveCall, disk, manifests, writes, auditMetadata, ioFailures,
                 proxyVars, stripVars, parseVars, fetchVars>>

\* what the file system does with a write or an unlink
FsOutcomes == {"done", "throws"}

\* one iteration of the write loop, given what the file system does with
\* mkdirSync and writeFileSync (lines 748-759 stand in no try block, so an
\* exception leaves saveSourceFiles and processAndSaveSource)
SaveFileWith(fsOutcome) ==
  /\ svpc = "save" /\ fileIdx <= Len(parsedSource.files)
  /\ LET filePath == parsedSource.files[fileIdx].key
         content == parsedSource.files[fileIdx].content
         normalizedPath == StripLeadingSlash(filePath)
         exclusion == shouldExcludeFromAudit(normalizedPath)
         fullPath == FullPath(baseDir, saveCall.contractType, normalizedPath)
         processedContent == IF EndsWith(normalizedPath, DotSol)
                             THEN stripSolidityComments(content) ELSE content
     IN  IF isBlacklisted(normalizedPath)
         THEN /\ blacklistedFiles' = Append(blacklistedFiles, normalizedPath)
              /\ excludedFiles' = Append(excludedFiles, normalizedPath)
              /\ excludedReasons' =
                   SetKey(excludedReasons, normalizedPath, "reason",
                          "blacklisted-vendor-library")
              /\ fileIdx' = fileIdx + 1
              /\ UNCHANGED <<svpc, disk, writes, savedFiles, keptFiles,
                             ioFailures>>
         ELSE IF fsOutcome = "throws"
         THEN /\ svpc' = "thrown"
              /\ ioFailures' = Append(ioFailures,
                                      [op |-> "write", path |-> fullPath])
              /\ UNCHANGED <<fileIdx, disk, writes, savedFiles, keptFiles,
                             excludedFiles, excludedReasons, blacklistedFiles>>
         ELSE /\ disk' = WriteFileSync(disk, fullPath, processedContent)
              /\ writes' = Append(writes, [path |-> fullPath, key |-> filePath])
              /\ savedFiles' = Append(savedFiles, fullPath)
              /\ IF exclusion.shouldExclude /\ ~Truthy(exclusion.warning)
                 THEN /\ excludedFiles' = Append(excludedFiles, normalizedPath)
                      /\ excludedReasons' =
                           SetKey(excludedReasons, normalizedPath, "reason",
                                  exclusion.reason)
                      /\ UNCHANGED keptFiles
                 ELSE /\ keptFiles' = Append(keptFiles, normalizedPath)
                      /\ UNCHANGED <<excludedFiles, excludedReasons>>
              /\ fileIdx' = fileIdx + 1
              /\ UNCHANGED <<svpc, blacklistedFiles, ioFailures>>
  /\ UNCHANGED <<saveCall, parsedSource, baseDir, delIdx, deletedFiles,
                 manifests, saveResult, auditMetadata, proxyVars, stripVars,
                 parseVars, fetchVars>>

\* one iteration of the write loop on a file system that takes every write.
\* No key of the payloads names a place that is a directory for another
\* key, so mkdirSync and writeFileSync have no reason of their own to throw.
SaveFile == SaveFileWith("done")

\* savedFiles.splice(savedIndex, 1) for the first saved path that lies at
\* excludedFile below dir
SpliceSaved(saved, dir, excludedFile) ==
  LET hit(k) == Relative(dir, saved[k]) = excludedFile
      savedIndex == FirstIndex(Len(saved), hit)
  IN  IF savedIndex > 0
      THEN SubSeq(saved, 1, savedIndex - 1)
             \o SubSeq(saved, savedIndex + 1, Len(saved))
      ELSE saved

\* one iteration of the delete loop, given what the file system does with
\* unlinkSync: a path that does not exist is passed over, and so is a
\* directory or any other path where unlinkSync throws, the catch only
\* warning
DeleteExcludedWith(fsOutcome) ==
  /\ svpc = "save" /\ fileIdx > Len(parsedSource.files)
  /\ delIdx <= Len(excludedFiles)
  /\ LET excludedFile == excludedFiles[delIdx]
         fullPath == FullPath(baseDir, saveCall.contractType, excludedFile)
     IN  IF ~IsFile(disk, fullPath)
         THEN UNCHANGED <<disk, deletedFiles, savedFiles, ioFailures>>
         ELSE IF fsOutcome = "throws"
         THEN /\ ioFailures' = Append(ioFailures,
                                      [op |-> "unlink", path |-> fullPath])
              /\ UNCHANGED <<disk, deletedFiles, savedFiles>>
         ELSE /\ disk' = UnlinkSync(disk, fullPath)
              /\ deletedFiles' = Append(deletedFiles, excludedFile)
              /\ savedFiles' =
                   SpliceSaved(savedFiles,
                     Normalize(baseDir \o SubDir(saveCall.contractType), <<>>),
                     excludedFile)
              /\ UNCHANGED ioFailures
  /\ delIdx' = delIdx + 1
  /\ UNCHANGED <<svpc, saveCall, parsedSource, baseDir, fileIdx, keptFiles,
                 excludedFiles, blacklistedFiles, excludedReasons, manifests,
                 writes, saveResult, auditMetadata, proxyVars, stripVars,
                 parseVars, fetchVars>>

\* one iteration of the delete loop on a file system that takes every unlink
DeleteExcluded == DeleteExcludedWith("done")

\* the contract name taken whether or not a main path was found
MainContractFileNameIsName(mainContractPath, contractName) == contractName

\* mainContractPath ? path.basename(mainContractPath) : contractName
MainContractFileName(mainContractPath, contractName) ==
  IF Truthy(mainContractPath) THEN basename(mainContractPath) ELSE contractName

\* after the loops: cleanupEmptyDirectories (directories are not kept apart
\* from the files below them, so removing the empty ones changes nothing),
\* the manifest, and the return of processAndSaveSource
FinishSave ==
  /\ svpc = "save" /\ fileIdx > Len(parsedSource.files)
  /\ delIdx > Len(excludedFiles)
  /\ LET sd == saveCall.sourceData
         mainContractPath ==
           detectMainContract(parsedSource.files, sd.contractName,
                              sd.contractFileName)
         auditManifest ==
           [mainContract |->
              MainContractFileName(mainContractPath, sd.contractName),
            mainContractPath |-> mainContractPath,
            contractType |-> saveCall.contractType]
         dir == Normalize(baseDir \o SubDir(saveCall.contractType), <<>>)
     IN  /\ manifests' = {f \in manifests : f.dir # dir}
                           \cup {[dir |-> dir, manifest |-> auditManifest]}
         /\ saveResult' =
              [success |-> TRUE, outputDir |-> baseDir, savedFiles |-> savedFiles,
               deletedFiles |-> deletedFiles, blacklistedFiles |-> blacklistedFiles,
               keptFiles |-> keptFiles, excludedReasons |-> excludedReasons,
               auditManifest |-> auditManifest,
               contractType |-> saveCall.contractType,
               originalContractAddress |-> sd.contractAddress]
  /\ svpc' = "done"
  /\ UNCHANGED <<saveCall, parsedSource, baseDir, fileIdx, delIdx, savedFiles,
                 keptFiles, excludedFiles, blacklistedFiles, deletedFiles,
                 excludedReasons, disk, writes, auditMetadata, ioFailures,
                 proxyVars, stripVars, parseVars, fetchVars>>

\* generateAuditMetadata called on the tree of a finished pass
GenerateAuditMetadata ==
  /\ svpc = "done" /\ saveCall.sourceData.isVerified
  /\ auditMetadata = NoMetadata
  /\ auditMetadata' =
       generateAuditMetadata(parsedSource.files,
                             saveCall.sourceData.contractName,
                             saveCall.sourceData.contractFileName)
  /\ UNCHANGED <<svpc, saveCall, parsedSource, baseDir, fileIdx, delIdx,
                 savedFiles, keptFiles, excludedFiles, blacklistedFiles,
                 deletedFiles, excludedReasons, disk, manifests, writes,
                 saveResult, ioFailures, proxyVars, stripVars, parseVars,
                 fetchVars>>

InitSave ==
  /\ svpc = "process"
  /\ saveCall \in SaveCalls
  /\ parsedSource = NotParsed /\ baseDir = <<>>
  /\ SaveLocalsEmpty
  /\ \E earlier \in EarlierRuns :
       disk = earlier.disk /\ manifests = earlier.manifests
  /\ writes = <<>>
  /\ saveResult = NoSaveResult /\ auditMetadata = NoMetadata
  /\ ioFailures = <<>>
  /\ ProxyIdle
  /\ StripIdle
  /\ ParseIdle
  /\ FetchIdle

NextSave ==
  ProcessStart \/ SaveFile \/ DeleteExcluded \/ FinishSave
    \/ GenerateAuditMetadata

SpecSave == InitSave /\ [][NextSave]_vars

\* the same pass on a file system that may refuse a write or an unlink
\* (no space, no permission, a directory in the way)
SaveFileOnFs == \E fsOutcome \in FsOutcomes : SaveFileWith(fsOutcome)

DeleteExcludedOnFs == \E fsOutcome \in FsOutcomes : DeleteExcludedWith(fsOutcome)

NextSaveOnFs == ProcessStart \/ SaveFileOnFs \/ DeleteExcludedOnFs \/ FinishSave

SpecSaveOnFs == InitSave /\ [][NextSaveOnFs]_vars

-----------------------------------------------------------------------------
(* processAndSaveSource and saveSourceFiles: properties *)

UpperLetters ==
  <<"A", "B", "C", "D", "E", "F", "G", "H", "I", "J", "K", "L", "M", "N",
    "O", "P", "Q", "R", "S", "T", "U", "V", "W", "X", "Y", "Z">>

LowerLetters ==
  <<"a", "b", "c", "d", "e", "f", "g", "h", "i", "j", "k", "l", "m", "n",
    "o", "p", "q", "r", "s", "t", "u", "v", "w", "x", "y", "z">>

toLowerCase(s) ==
  [k \in 1..Len(s) |->
     IF s[k] \in Range(UpperLetters)
     THEN LowerLetters[CHOOSE j \in 1..Len(UpperLetters) : UpperLetters[j] = s[k]]
     ELSE s[k]]

\* the directories of RED_FLAG_PATHS, each anchored at the start of the path
RED_FLAG_PATHS ==
  {<<"c", "o", "n", "t", "r", "a", "c", "t", "s", "/", "l", "i", "b", "/">>,
      <<"c", "o", "n", "t", "r", "a", "c", "t", "s", "/", "v", "e", "n", "d",
      "o", "r", "/">>, <<"c", "o", "n", "t", "r", "a", "c", "t", "s", "/",
      "e", "x", "t", "e", "r", "n", "a", "l", "/">>, <<"c", "o", "n", "t",
      "r", "a", "c", "t", "s", "/", "u", "t", "i", "l", "s", "/">>, <<"c",
      "o", "n", "t", "r", "a", "c", "t", "s", "/", "l", "i", "b", "r", "a",
      "r", "i", "e", "s", "/">>, <<"s", "r", "c", "/", "l", "i", "b", "/">>,
      <<"s", "r", "c", "/", "v", "e", "n", "d", "o", "r", "/">>, <<"s", "r",
      "c", "/", "e", "x", "t", "e", "r", "n", "a", "l", "/">>, <<"l", "i",
      "b", "/">>, <<"v", "e", "n", "d", "o", "r", "/">>, <<"e", "x", "t",
      "e", "r", "n", "a", "l", "/">>}

\* the directories of DEV_TOOLING_PATTERNS
DEV_TOOLING_PATTERNS ==
  {<<"t", "e", "s", "t", "/">>, <<"t", "e", "s", "t", "s", "/">>, <<"s", "c",
      "r", "i", "p", "t", "s", "/">>, <<"d", "e", "p", "l", "o", "y", "/">>,
      <<"d", "e", "p", "l", "o", "y", "m", "e", "n", "t", "/">>, <<"m", "o",
      "c", "k", "s", "/">>, <<"m", "o", "c", "k", "/">>, <<"e", "x", "a",
      "m", "p", "l", "e", "/">>, <<"e", "x", "a", "m", "p", "l", "e", "s",
      "/">>, <<"d", "e", "m", "o", "/">>, <<"b", "e", "n", "c", "h", "m",
      "a", "r", "k", "s", "/">>, <<"f", "o", "r", "g", "e", "-", "s", "t",
      "d", "/">>, <<"d", "a", "p", "p", "-", "t", "o", "o", "l", "s", "/">>,
      <<"d", "s", "-", "t", "e", "s", "t", "/">>, <<"h", "a", "r", "d", "h",
      "a", "t", "/">>, <<"f", "o", "u", "n", "d", "r", "y", "/">>}

\* the directories of BUILD_ARTIFACTS_PATTERNS
BUILD_ARTIFACTS_PATTERNS ==
  {<<"o", "u", "t", "/">>, <<"a", "r", "t", "i", "f", "a", "c", "t", "s",
      "/">>, <<"c", "a", "c", "h", "e", "/">>, <<"t", "y", "p", "e", "c",
      "h", "a", "i", "n", "/">>, <<"a", "b", "i", "/">>, <<"a", "b", "i",
      "s", "/">>, <<"b", "u", "i", "l", "d", "/">>, <<"c", "o", "v", "e",
      "r", "a", "g", "e", "/">>, <<"n", "o", "d", "e", "_", "m", "o", "d",
      "u", "l", "e", "s", "/">>}

\* the endings of SAFE_FILENAME_PATTERNS
SAFE_FILENAME_PATTERNS ==
  {<<"T", "e", "s", "t", ".", "s", "o", "l">>, <<".", "t", ".", "s", "o",
      "l">>, <<"M", "o", "c", "k", ".", "s", "o", "l">>, <<"H", "a", "r",
      "n", "e", "s", "s", ".", "s", "o", "l">>, <<"S", "c", "r", "i", "p",
      "t", ".", "s", "o", "l">>, <<"D", "e", "p", "l", "o", "y", ".", "s",
      "o", "l">>, <<"H", "e", "l", "p", "e", "r", ".", "s", "o", "l">>,
      <<"U", "t", "i", "l", "s", ".", "s", "o", "l">>}

MatchesRedFlagPath(p) ==
  \E r \in RED_FLAG_PATHS : StartsWith(toLowerCase(p), r)

\* /\b<dir>\//i for a directory of the set
MatchesDirectory(p, dirs) ==
  \E d \in dirs : \E k \in 1..Len(p) :
    MatchAt(toLowerCase(p), k, d) /\ BoundaryBefore(p, k)

MatchesExclusionRule(p) ==
  \/ MatchesDirectory(p, BUILD_ARTIFACTS_PATTERNS)
  \/ MatchesDirectory(p, DEV_TOOLING_PATTERNS)
  \/ \E e \in SAFE_FILENAME_PATTERNS : EndsWith(p, e)

\* a pass of processAndSaveSource over a verified source has returned
SavePassDone == svpc = "done" /\ saveCall.sourceData.isVerified

\* where the pass puts the file of a tree key
PlaceOf(filePath) ==
  FullPath(baseDir, saveCall.contractType, StripLeadingSlash(filePath))

\* how often x stands in the list s
Occurrences(s, x) == Cardinality({k \in 1..Len(s) : s[k] = x})

\* C12 as stated: when the parsed tree has exactly one file and a contract
\* name is known, the tree handed to saveSourceFiles has exactly one file,
\* named <contractName>.sol, with the parsed file's content
C12_RenameKeepsOneFile ==
  (/\ svpc \in {"save", "done"} /\ saveCall.sourceData.isVerified
   /\ Truthy(saveCall.sourceData.contractName)
   /\ Len(parseSourceCode(saveCall.sourceData.sourceCode).files) = 1)
    => parsedSource.files
         = OneFile(saveCall.sourceData.contractName \o DotSol,
                   parseSourceCode(saveCall.sourceData.sourceCode).files[1].content)

\* C13 as stated: a tree file under a red-flag directory that matches no
\* blacklist entry is listed in redFlagFiles and in the warnings, is in no
\* exclusion list and is on disk after the pass
C13_RedFlagListedAndKept ==
  (SavePassDone /\ auditMetadata # NoMetadata)
    => \A k \in 1..Len(parsedSource.files) :
         LET filePath == parsedSource.files[k].key
             normalizedPath == StripLeadingSlash(filePath)
         IN  (MatchesRedFlagPath(normalizedPath) /\ ~isBlacklisted(normalizedPath))
               => /\ filePath \in Range(auditMetadata.categories.redFlagFiles)
                  /\ filePath \in Range(auditMetadata.categories.warnings)
                  /\ filePath \notin Range(auditMetadata.categories.excluded)
                  /\ normalizedPath \notin Range(excludedFiles)
                  /\ IsFile(disk, PlaceOf(filePath))

\* C14 as stated: a tree file that matches a build-artifact, dev-tooling or
\* safe-filename pattern, no blacklist entry and no red-flag path was
\* written once and is, after the pass, absent from disk, from keptFiles
\* and from savedFiles, and listed as excluded with its reason
C14_ExcludedWrittenThenDeleted ==
  SavePassDone
    => \A k \in 1..Len(parsedSource.files) :
         LET filePath == parsedSource.files[k].key
             normalizedPath == StripLeadingSlash(filePath)
         IN  (/\ MatchesExclusionRule(normalizedPath)
              /\ ~isBlacklisted(normalizedPath)
              /\ ~MatchesRedFlagPath(normalizedPath))
               => /\ Cardinality({j \in 1..Len(writes) : writes[j].key = filePath}) = 1
                  /\ ~IsFile(disk, PlaceOf(filePath))
                  /\ normalizedPath \notin Range(keptFiles)
                  /\ PlaceOf(filePath) \notin Range(savedFiles)
                  /\ normalizedPath \in Range(excludedFiles)
                  /\ \E j \in 1..Len(excludedReasons) :
                       excludedReasons[j].key = normalizedPath

\* C15 as stated: a tree file whose normalized path contains a blacklist
\* entry is never written during the pass, is reported in blacklistedFiles
\* and is absent from disk after the pass; a tree file that matches no
\* blacklist entry and no exclusion rule is on disk after the pass
C15_BlacklistedNeverOnDisk ==
  /\ \A j \in 1..Len(writes) : ~isBlacklisted(StripLeadingSlash(writes[j].key))
  /\ SavePassDone
       => \A k \in 1..Len(parsedSource.files) :
            LET filePath == parsedSource.files[k].key
                normalizedPath == StripLeadingSlash(filePath)
            IN  IF isBlacklisted(normalizedPath)
                THEN /\ normalizedPath \in Range(blacklistedFiles)
                     /\ ~IsFile(disk, PlaceOf(filePath))
                ELSE MatchesExclusionRule(normalizedPath)
                       \/ IsFile(disk, PlaceOf(filePath))

\* C16 as stated: after categorizeFilesForAudit every tree path is the main
\* file or stands exactly once in the lists red-flag, critical, interface
\* and excluded taken together, never both; after saveSourceFiles every
\* tree path stands exactly once in keptFiles and excludedFiles taken
\* together
C16_OneClassificationPerFile ==
  /\ (SavePassDone /\ auditMetadata # NoMetadata)
       => \A k \in 1..Len(parsedSource.files) :
            LET filePath == parsedSource.files[k].key
                c == auditMetadata.categories
                listed == Occurrences(c.redFlagFiles \o c.interfaces \o c.excluded, filePath)
                            + (IF filePath \in Range(c.redFlagFiles) THEN 0
                               ELSE Occurrences(c.criticalFiles, filePath))
            IN  IF filePath = auditMetadata.mainContractPath THEN listed = 0
                ELSE listed = 1
  /\ SavePassDone
       => \A k \in 1..Len(parsedSource.files) :
            Occurrences(keptFiles \o excludedFiles,
                        StripLeadingSlash(parsedSource.files[k].key)) = 1

\* the tree positions each strategy of detectMainContract is described to
\* match, for a contract name cn and main file name cfn
ByFileName(files, cfn) ==
  {k \in 1..Len(files) :
     Truthy(cfn) /\ (EndsWith(files[k].key, cfn) \/ basename(files[k].key) = cfn)}

ByContractName(files, cn) ==
  {k \in 1..Len(files) :
     Truthy(cn) /\ (\/ basenameWithout(files[k].key, DotSol) = cn
                    \/ Declares(files[k].content, cn))}

NotExcluded(files) ==
  {k \in 1..Len(files) : ~shouldExcludeFromAudit(files[k].key).shouldExclude}

Largest(files) ==
  {k \in NotExcluded(files) :
     \A j \in NotExcluded(files) : Len(files[j].content) <= Len(files[k].content)}

MostPublicFunctions(files) ==
  {k \in NotExcluded(files) :
     \A j \in NotExcluded(files) :
       PublicFunctions(files[j].content) <= PublicFunctions(files[k].content)}

\* the matches of the first strategy that matches anything
FirstMatching(files, cn, cfn) ==
  IF ByFileName(files, cfn) # {} THEN ByFileName(files, cfn)
  ELSE IF ByContractName(files, cn) # {} THEN ByContractName(files, cn)
  ELSE IF Largest(files) # {} THEN Largest(files)
  ELSE MostPublicFunctions(files)

\* C17 as stated: the main file of a pass is a match of the first of the
\* four strategies that matches anything, and null only when none matches
C17_FirstMatchingStrategy ==
  SavePassDone
    => LET files == parsedSource.files
           hits == FirstMatching(files, saveCall.sourceData.contractName,
                                 saveCall.sourceData.contractFileName)
           main == saveResult.auditManifest.mainContractPath
       IN  IF hits = {} THEN main = Null
           ELSE \E k \in hits : main = files[k].key

\* C18 as stated: the file a manifest names as main is on disk in the
\* manifest's directory, and the main file of a pass was written and is in
\* no exclusion list
C18_MainFileKept ==
  /\ \A f \in manifests :
       Truthy(f.manifest.mainContractPath)
         => IsFile(disk, Normalize(f.dir \o Split(f.manifest.mainContractPath), <<>>))
  /\ (SavePassDone /\ Truthy(saveResult.auditManifest.mainContractPath))
       => LET main == saveResult.auditManifest.mainContractPath
          IN  /\ \E j \in 1..Len(writes) : writes[j].key = main
              /\ StripLeadingSlash(main) \notin Range(excludedFiles)
              /\ StripLeadingSlash(main) \notin Range(deletedFiles)

-----------------------------------------------------------------------------
(* chainConfig.js *)

\* CHAIN_CONFIG: its own keys in insertion order, with the fields read here
CHAIN_CONFIG ==
  <<[key |-> <<"e", "t", "h", "e", "r", "e", "u", "m">>, chainId |-> 1],
    [key |-> <<"b", "s", "c">>, chainId |-> 56],
    [key |-> <<"b", "a", "s", "e">>, chainId |-> 8453],
    [key |-> <<"a", "r", "b", "i", "t", "r", "u", "m">>, chainId |-> 42161]>>

\* property names every object literal inherits from Object.prototype
\* (some of them)
ObjectPrototypeKeys ==
  {<<"c", "o", "n", "s", "t", "r", "u", "c", "t", "o", "r">>, <<"t", "o",
      "S", "t", "r", "i", "n", "g">>, <<"v", "a", "l", "u", "e", "O", "f">>,
      <<"h", "a", "s", "O", "w", "n", "P", "r", "o", "p", "e", "r", "t",
      "y">>, <<"_", "_", "p", "r", "o", "t", "o", "_", "_">>}

\* Object.keys(CHAIN_CONFIG)
getSupportedChains == [k \in 1..Len(CHAIN_CONFIG) |-> CHAIN_CONFIG[k].key]

\* chainName.toLowerCase().trim()
NormalizedName(name) == Trim(toLowerCase(name))

\* normalizedName in CHAIN_CONFIG: own and inherited properties
isChainSupported(name) ==
  \/ NormalizedName(name) \in Range(getSupportedChains)
  \/ NormalizedName(name) \in ObjectPrototypeKeys

\* CHAIN_CONFIG[normalizedName] || null.  isNull tells null from an object;
\* chainId is 0 where the object found has no such field (an inherited
\* property)
getChainConfig(name) ==
  LET normalizedName == NormalizedName(name)
  IN  IF \E k \in 1..Len(CHAIN_CONFIG) : CHAIN_CONFIG[k].key = normalizedName
      THEN LET k == CHOOSE j \in 1..Len(CHAIN_CONFIG) :
                      CHAIN_CONFIG[j].key = normalizedName
           IN  [isNull |-> FALSE, chainId |-> CHAIN_CONFIG[k].chainId]
      ELSE IF normalizedName \in ObjectPrototypeKeys
           THEN [isNull |-> FALSE, chainId |-> 0]
      ELSE [isNull |-> TRUE, chainId |-> 0]

-----------------------------------------------------------------------------
(* fetchContract *)

\* chain identifiers passed to fetchContract
ChainNames ==
  {<<"b", "s", "c">>, <<" ", "B", "S", "C">>, <<"B", "a", "s", "e">>, <<"p",
      "o", "l", "y", "g", "o", "n">>, <<"c", "o", "n", "s", "t", "r", "u",
      "c", "t", "o", "r">>, <<>>}

\* data.result[0] of a registry reply: no source, or a verified source
RegistryResults ==
  {[SourceCode |-> <<>>, ContractName |-> <<>>, ContractFileName |-> Absent]}
    \cup [SourceCode : {<<"c", "o", "n", "t", "r", "a", "c", "t", " ", "M", "a", "i", "n", "{", "}">>,
                        <<"{",
                            "\"src/Main.sol\":{\"content\":\"contract Main{}\"}",
                            "}">>,
                        <<"{",
                            "\"lib/chainlink/A.sol\":{\"content\":\"contract A{function f()public{}}\"}",
                            "}">>},
          ContractName : {<<"M", "a", "i", "n">>}, ContractFileName : {Absent}]

\* what a registry request comes to: an error (the request fails or the
\* status is not '1'), or a result.  A request without a chain id is
\* answered with an error.
FailedReply ==
  [ok |-> FALSE,
   result |-> [SourceCode |-> <<>>, ContractName |-> <<>>,
               ContractFileName |-> Absent]]

RegistryReplies(config) ==
  IF config.chainId = 0 THEN {FailedReply}
  ELSE {FailedReply} \cup {[ok |-> TRUE, result |-> r] : r \in RegistryResults}

\* the object fetchContractSource returns for a result
SourceDataOf(name, contractAddress, r) ==
  [present |-> TRUE, isVerified |-> Truthy(r.SourceCode),
   sourceCode |-> r.SourceCode, contractName |-> r.ContractName,
   contractFileName |-> r.ContractFileName, chainName |-> name,
   contractAddress |-> contractAddress]

\* objects detectProxy returns: no proxy, no contract at the address, a
\* failed read, a proxy with its implementation
DetectProxyOutcomes ==
  {NotProxyResult(Absent), NotProxyResult(NoContractError),
   NotProxyResult(ErrorMessage),
   ProxyResult(getAddress(Prefix0x \o AddrA), Absent)}

UnsupportedChainError == <<"Unsupported chain">>

NotVerifiedOnExplorer ==
  <<"Contract source code is not verified on block explorer">>

\* the entries pushed to result.sourceResults: `has` names the properties
\* the entry holds besides those of the item
SavedEntry(item, r) ==
  [address |-> item.address, type |-> item.type,
   has |-> {"verified", "success", "saveResult"},
   verified |-> TRUE, success |-> r.success, error |-> Absent, saveResult |-> r]

UnverifiedEntryNoError(item) ==
  [address |-> item.address, type |-> item.type,
   has |-> {"verified", "success"},
   verified |-> FALSE, success |-> TRUE, error |-> Absent,
   saveResult |-> NoSaveResult]

UnverifiedEntry(item) ==
  [address |-> item.address, type |-> item.type,
   has |-> {"verified", "success", "error"},
   verified |-> FALSE, success |-> FALSE, error |-> NotVerifiedOnExplorer,
   saveResult |-> NoSaveResult]

CaughtEntry(item) ==
  [address |-> item.address, type |-> item.type, has |-> {"error"},
   verified |-> FALSE, success |-> FALSE, error |-> ErrorMessage,
   saveResult |-> NoSaveResult]

\* addressesToFetch
AddressesToFetch(info, contractAddress, main) ==
  IF info.isProxy
  THEN <<[address |-> info.proxyAddress, type |-> "proxy", sourceData |-> main],
         [address |-> info.implementationAddress, type |-> "implementation",
          sourceData |-> NoSourceFetched]>>
  ELSE <<[address |-> contractAddress, type |-> "main", sourceData |-> main]>>

\* the chain check that opens fetchContract
ValidateChain ==
  /\ fpc = "validate"
  /\ IF ~isChainSupported(chainName)
     THEN fpc' = "failed" /\ thrown' = UnsupportedChainError
     ELSE fpc' = "fetchMain" /\ UNCHANGED thrown
  /\ UNCHANGED <<chainName, mainSourceData, proxyInfo, addressesToFetch, itemIdx,
                 sourceResults, requests, chainReads, proxyVars, stripVars,
                 parseVars, saveVars>>

\* Step 1: fetchContractSource for the target, a failure leaving
\* mainSourceData null
FetchMainSource ==
  /\ fpc = "fetchMain"
  /\ LET config == getChainConfig(chainName)
     IN  IF config.isNull
         THEN UNCHANGED <<mainSourceData, requests>>
         ELSE \E reply \in RegistryReplies(config) :
                /\ requests' = Append(requests, [chainId |-> config.chainId,
                                                 address |-> Target,
                                                 reply |-> reply])
                /\ mainSourceData' =
                     IF ~reply.ok THEN NoSourceFetched
                     ELSE SourceDataOf(chainName, Target, reply.result)
  /\ fpc' = "detect"
  /\ UNCHANGED <<chainName, proxyInfo, addressesToFetch, itemIdx, sourceResults,
                 chainReads, thrown, proxyVars, stripVars, parseVars, saveVars>>

\* Step 2: detectProxy, which throws when createProvider finds no
\* configuration and otherwise reads the bytecode first, and the list of
\* items built from its answer
DetectProxyStep ==
  /\ fpc = "detect"
  /\ IF getChainConfig(chainName).isNull
     THEN /\ fpc' = "failed" /\ thrown' = UnsupportedChainError
          /\ UNCHANGED <<proxyInfo, addressesToFetch, chainReads>>
     ELSE /\ chainReads' = Append(chainReads, "getCode")
          /\ \E info \in DetectProxyOutcomes :
               /\ proxyInfo' = info
               /\ addressesToFetch' = AddressesToFetch(info, Target, mainSourceData)
          /\ fpc' = "items"
          /\ UNCHANGED thrown
  /\ UNCHANGED <<chainName, mainSourceData, itemIdx, sourceResults, requests,
                 proxyVars, stripVars, parseVars, saveVars>>

\* an iteration of the loop over the items up to the call of
\* processAndSaveSource, or to its end when nothing is saved
BeginItem ==
  /\ fpc = "items" /\ itemIdx <= Len(addressesToFetch)
  /\ LET item == addressesToFetch[itemIdx]
         config == getChainConfig(chainName)
         cached == item.sourceData.present
     IN  \E reply \in (IF cached THEN {FailedReply} ELSE RegistryReplies(config)) :
           /\ requests' = IF cached THEN requests
                          ELSE Append(requests, [chainId |-> config.chainId,
                                                 address |-> item.address,
                                                 reply |-> reply])
           /\ LET fetched == IF cached THEN item.sourceData
                             ELSE IF ~reply.ok THEN NoSourceFetched
                             ELSE SourceDataOf(chainName, item.address,
                                               reply.result)
              IN  IF ~fetched.present
                  THEN /\ sourceResults' = Append(sourceResults, CaughtEntry(item))
                       /\ itemIdx' = itemIdx + 1
                       /\ UNCHANGED <<fpc, svpc, saveCall>>
                  ELSE IF fetched.isVerified
                  THEN /\ saveCall' = [sourceData |-> fetched,
                                       contractType |-> item.type,
                                       baseContractAddress |-> Target]
                       /\ svpc' = "process"
                       /\ fpc' = "saving"
                       /\ UNCHANGED <<sourceResults, itemIdx>>
                  ELSE /\ sourceResults' = Append(sourceResults, UnverifiedEntry(item))
                       /\ itemIdx' = itemIdx + 1
                       /\ UNCHANGED <<fpc, svpc, saveCall>>
  /\ UNCHANGED <<chainName, mainSourceData, proxyInfo, addressesToFetch,
                 chainReads, thrown, parsedSource, baseDir, fileIdx, delIdx,
                 savedFiles, keptFiles, excludedFiles, blacklistedFiles,
                 deletedFiles, excludedReasons, disk, manifests, writes,
                 saveResult, auditMetadata, ioFailures, proxyVars, stripVars,
                 parseVars>>

\* the rest of the iteration once processAndSaveSource has returned
EndItem ==
  /\ fpc = "saving" /\ svpc = "done"
  /\ sourceResults' = Append(sourceResults,
                             SavedEntry(addressesToFetch[itemIdx], saveResult))
  /\ itemIdx' = itemIdx + 1
  /\ fpc' = "items"
  /\ UNCHANGED <<chainName, mainSourceData, proxyInfo, addressesToFetch,
                 requests, chainReads, thrown, proxyVars, stripVars, parseVars,
                 saveVars>>

\* after the loop: the result is returned
FinishFetch ==
  /\ fpc = "items" /\ itemIdx > Len(addressesToFetch)
  /\ fpc' = "done"
  /\ UNCHANGED <<chainName, mainSourceData, proxyInfo, addressesToFetch, itemIdx,
                 sourceResults, requests, chainReads, thrown, proxyVars,
                 stripVars, parseVars, saveVars>>

InitFetch ==
  /\ fpc = "validate"
  /\ chainName \in ChainNames
  /\ mainSourceData = NoSourceFetched /\ proxyInfo = NoResult
  /\ addressesToFetch = <<>> /\ itemIdx = 1 /\ sourceResults = <<>>
  /\ requests = <<>> /\ chainReads = <<>> /\ thrown = Null
  /\ ProxyIdle
  /\ StripIdle
  /\ ParseIdle
  /\ SaveIdle

NextFetch ==
  ValidateChain \/ FetchMainSource \/ DetectProxyStep \/ BeginItem \/ EndItem
    \/ FinishFetch \/ ProcessStart \/ SaveFile \/ DeleteExcluded \/ FinishSave

SpecFetch == InitFetch /\ [][NextFetch]_vars

-----------------------------------------------------------------------------
(* fetchContract: properties *)

\* the registry has answered a request for address a with a result that
\* holds no source
ReportedUnverified(a) ==
  \E j \in 1..Len(requests) :
    /\ requests[j].address = a /\ requests[j].reply.ok
    /\ ~Truthy(requests[j].reply.result.SourceCode)

\* the registry has answered a request for address a with a verified source
ReportedVerified(a) ==
  \E j \in 1..Len(requests) :
    /\ requests[j].address = a /\ requests[j].reply.ok
    /\ Truthy(requests[j].reply.result.SourceCode)

\* the directory the pass for an item of this run writes to
ItemDir(item) ==
  Normalize(createOutputDirectory(chainName, Target) \o SubDir(item.type), <<>>)

\* path p lies below directory dir
Below(p, dir) == Len(p) > Len(dir) /\ SubSeq(p, 1, Len(dir)) = dir

C20_UnsupportedChainRejected ==
  (fpc # "idle" /\ NormalizedName(chainName) \notin Range(getSupportedChains))
    => /\ ~isChainSupported(chainName)
       /\ getChainConfig(chainName).isNull
       /\ fpc \in {"validate", "failed"}
       /\ fpc = "failed" => thrown = UnsupportedChainError
       /\ requests = <<>> /\ chainReads = <<>> /\ writes = <<>>

-----------------------------------------------------------------------------
(* detectProxyFromSource and the addresses detectProxy returns *)

\* the chain reads of the source-based heuristic
SourceReads ==
  {"src.implementation", "src.customSlot", "src.slotCode",
   "src.slotContract.implementation", "src.ctorCode",
   "src.ctor.implementation"}

\* the source text shows none of the three patterns
NoTextualSignal ==
  /\ ~sourceData.sourceCode.inheritsProxy
  /\ ~sourceData.sourceCode.overridesImplementation
  /\ ~sourceData.sourceCode.storageSlot

\* C24: the source-based heuristic is entered only with a verified registry
\* record and after the registry value and each of the seven methods gave
\* nothing (no valid declared implementation, no minimal-proxy bytecode, no
\* read naming an address); a source read is issued only inside the
\* heuristic; and with none of the three signals in the source text no
\* source read is ever issued and the run has ended with isProxy=false
C24_SourceHeuristicGated ==
  /\ "source" \in Range(attempted)
       => /\ sourceData.present /\ sourceData.isVerified
          /\ Range(DetectionMethods) \subseteq Range(attempted)
          /\ ~DeclaredImplementation
          /\ ~Truthy(parseEIP1167Bytecode(code))
          /\ answer.read \notin SourceReads => ~sawAddress
  /\ \A k \in 1..Len(attempted) :
       attempted[k] \in SourceReads
         => \E j \in 1..(k - 1) : attempted[j] = "source"
  /\ ("source" \in Range(attempted) /\ NoTextualSignal)
       => /\ Range(attempted) \cap SourceReads = {}
          /\ LastOf(attempted) = "source"
          /\ pc = "done"
          /\ result = NotProxyResult(Absent)

\* C24 witness: a verified record without any signal, every method tried
\* and failed, and the run ended at the heuristic's door with isProxy=false
C24_Witness ==
  /\ pc = "done" /\ sourceData.isVerified /\ NoTextualSignal
  /\ LastOf(attempted) = "source"
  /\ answer.read = "beacon.childImplementation"
  /\ ~result.isProxy

\* C25 as stated: in the heuristic, a custom slot whose value is the
\* address of a contract with deployed code is followed by a call of
\* implementation() on that address, and what the call returns is the
\* implementation reported; a slot value without deployed code is followed
\* by no call on it but by the scan of the constructor arguments
C25_SlotValueIsAskedForImplementation ==
  /\ (answer.read = "src.slotCode" /\ answer.value # Fail
        /\ HasCode(answer.value))
       => /\ pc = "src.slotContract.implementation"
          /\ ~result.isProxy
  /\ (answer.read = "src.slotContract.implementation"
        /\ CarriesAddress(answer.read, answer.value))
       => /\ pc = "done"
          /\ result = ProxyResult(getChecksumAddress(answer.value),
                                  SourceCodeAnalysis)
  /\ (answer.read = "src.slotCode" /\ IsEmptyCode(answer.value))
       => /\ "src.slotContract.implementation" \notin Range(attempted)
          /\ \/ pc = "src.ctorCode"
             \/ pc = "done" /\ ~result.isProxy

\* C27 as stated: in the object returned, isProxy is true exactly when
\* implementationAddress is not null, and an implementationAddress that is
\* not null is the text of an address other than the zero address
C27_ImplementationIsNonZeroAddress ==
  pc = "done"
    => /\ result.isProxy <=> result.implementationAddress # Null
       /\ result.implementationAddress # Null
            => /\ ValidAddressText(result.implementationAddress)
               /\ LowerCase(result.implementationAddress) # ZeroAddress

-----------------------------------------------------------------------------
(* stripSolidityComments: the form of the output *)

\* C26 as stated: the text returned holds no three newlines in a row, no
\* blank before a newline, starts with no white space, and ends with one
\* newline and one only
C26_OutputInNormalForm ==
  spc = "done"
    => /\ \A k \in 1..(Len(out) - 2) :
            ~(out[k] = NL /\ out[k + 1] = NL /\ out[k + 2] = NL)
       /\ \A k \in 2..Len(out) : out[k] = NL => out[k - 1] # " "
       /\ out # <<>> /\ ~IsSpace(out[1])
       /\ out # <<>> /\ out[Len(out)] = NL
       /\ Len(out) >= 2 => out[Len(out) - 1] # NL

\* C29 as stated: stripping the text returned gives the same text again
C29_StripIsIdempotent ==
  spc = "done" => stripSolidityComments(out) = out

-----------------------------------------------------------------------------
(* saveSourceFiles: failing writes, directories, manifests and reruns *)

\* the directory a pass writes its manifest to
PassDir == Normalize(baseDir \o SubDir(saveCall.contractType), <<>>)

\* C21 as stated: once the file system has refused a write or an unlink of
\* a pass for a verified contract, the pass does not end with an exception,
\* and when it has ended every file of the tree went through the write
\* loop, every excluded path went through the delete loop, the manifest
\* stands in the pass's directory and a result with success true was
\* returned
C21_FailureDoesNotAbort ==
  (saveCall.sourceData.isVerified /\ ioFailures # <<>>)
    => /\ svpc # "thrown"
       /\ svpc = "done"
            => /\ fileIdx > Len(parsedSource.files)
               /\ delIdx > Len(excludedFiles)
               /\ \E f \in manifests : f.dir = PassDir
               /\ saveResult.success = TRUE

\* C22 as stated: a pass of type proxy or implementation hands to
\* writeFileSync, and creates, overwrites or deletes on disk, only paths
\* below its own directory <base>/proxy or <base>/implementation, whatever
\* the keys of its tree
C22_PassesTouchDisjointPaths ==
  [][saveCall.contractType \in {"proxy", "implementation"}
       => /\ writes' # writes
               => Below(writes'[Len(writes')].path, PassDir)
          /\ \A f \in (disk \ disk') \cup (disk' \ disk) :
               Below(f.path, PassDir)]_vars

FilesOfPass ==
  {f.path : f \in
     {g \in disk :
        /\ Below(g.path, PassDir)
        /\ saveCall.contractType = "main"
             => \A type \in {"proxy", "implementation"} :
                  ~Below(g.path, Normalize(baseDir \o SubDir(type), <<>>))}}

\* C28 as stated: when a pass has ended, the source files in its directory
\* are the kept files of this pass and no others, whatever earlier passes
\* left there
C28_OnlyKeptFilesRemain ==
  SavePassDone
    => FilesOfPass
         = {FullPath(baseDir, saveCall.contractType, keptFiles[k]) :
              k \in 1..Len(keptFiles)}

\* C30 as stated: with a declared main file name that holds no directory
\* and a tree one of whose keys has exactly that base name, the main
\* contract path of the pass has that base name
C30_DeclaredFileNameMatchedExactly ==
  LET contractFileName == saveCall.sourceData.contractFileName
  IN  (/\ SavePassDone
       /\ Truthy(contractFileName) /\ ~Includes(contractFileName, <<"/">>)
       /\ \E k \in 1..Len(parsedSource.files) :
            basename(parsedSource.files[k].key) = contractFileName)
        => /\ Truthy(saveResult.auditManifest.mainContractPath)
           /\ basename(saveResult.auditManifest.mainContractPath)
                = contractFileName

-----------------------------------------------------------------------------
(* The components together *)

\* a behaviour runs one of the components
Init == InitProxy \/ InitStrip \/ InitParse \/ InitSave \/ InitFetch

Next ==
  NextProxy \/ NextStrip \/ NextParse \/ NextSave \/ NextSaveOnFs \/ NextFetch

Spec == Init /\ [][Next]_vars

====
